---- MODULE Spec2Model ----
(***************************************************************************)
(* Model of the Octo Bed coordinator (custom_components/octo_bed):         *)
(* one cooperative scheduler, every await a step boundary.  Each           *)
(* long-running operation is a process whose position is pc[p]; the        *)
(* helper coroutines _send_command, async_send_stop and                    *)
(* async_run_movement_for_duration are sub-machines (sc, ss, b) indexed by *)
(* the process that awaits them.                                           *)
(*                                                                         *)
(* Units: time in milliseconds, positions in tenths of a percent           *)
(* (0..1000).  A sleep advances the sleeping coroutine's reading of the    *)
(* loop clock by its nominal length; BLE calls take no clock time but may  *)
(* raise.  establish_connection and every GATT write end "ok", "charnf"    *)
(* (characteristic not found, after _write_gatt_char_flexible's own        *)
(* retry) or "other"; the number of injected faults is budgeted.  The      *)
(* re-authentication write inside the stream loops is part of the loop     *)
(* pass it belongs to.  Every operation runs at most once in a behaviour,  *)
(* except the poll cycle and the keep-alive loop, which repeat.            *)
(***************************************************************************)
EXTENDS Integers, FiniteSets, Sequences, TLC

\* ---------------------------------------------------------------- bounds
\* Faults (failed connects / writes) injected in one behaviour.
MaxFaults == 3
\* Faults injected in one behaviour when each stream family runs on its own.
MaxFaultsStreams == 2
\* Faults injected in one behaviour of the concurrency specifications.
MaxFaultsConc == 1
\* Changes of the device's visibility to the Bluetooth adapters in one behaviour.
MaxEnvFlips == 1
\* Adverts seen at once in the discovery specification.
MaxAdverts == 2
\* Calls of the discovery in one behaviour.
MaxEnsureCalls == 2
\* Calls of start_keep_alive_loop and cancel_keep_alive_loop in one behaviour.
MaxTaskCalls == 3
\* Characters of the PIN strings drawn.
MaxPinLen == 5
\* Largest opcode drawn for a system command.
MaxOpcode == 255
\* Faults injected in one behaviour of the both-sections move.
MaxFaultsBoth == 2
\* KEEP_ALIVE_ACTIVE_MOVEMENT_SEC in ms: coordinator.py imports the name from
\* const.py, which does not define it; one second is taken for it.
KEEP_ALIVE_ACTIVE_MOVEMENT_MS == 1000
\* Diagnostic scan tasks created in one behaviour.
MaxScans == 3
\* Calls of async_stop_test_scan in one behaviour.
MaxStopCalls == 2

\* ------------------------------------------------------ program constants
DELAY_AFTER_CONNECT_MS == 1000
DELAY_AFTER_CONNECT_MOVEMENT_MS == 200
KEEP_ALIVE_DELAY_MS == 50
DELAY_AFTER_STOP_SAME_CONN_MS == 100
MOVEMENT_COMMAND_INTERVAL_MS == 340
\* asyncio.sleep(0.1) between and after the two stop frames
STOP_GAP_MS == 100
\* asyncio.sleep(1.0) before a resumed attempt of a bounded movement
RESUME_PAUSE_MS == 1000
\* "if remaining <= 0.1: return True"
RESUME_MIN_REMAINING_MS == 100
\* range(3) in async_run_movement_for_duration
MOVE_ATTEMPTS == 3
\* for attempt in range(2) in the covers' _run_to_position
COVER_ATTEMPTS == 2
\* for attempt in range(2) in _send_command
SEND_ATTEMPTS == 2
\* backoff = 4.0 if "characteristic" in err and "not found" in err else 1.0
SEND_BACKOFF_LONG_MS == 4000
SEND_BACKOFF_SHORT_MS == 1000
MIN_DURATION_MS == 300
MIN_CALIBRATION_MS == 1000
MAX_CALIBRATION_MS == 120000
\* abs(target - current) < 0.5, in tenths of a percent
NOOP_DIFF_T == 5
\* abs(position - 100) < 2 or abs(position) < 2, in tenths of a percent
AT_LIMIT_T == 20
\* "> 0.5" in async_move_to_zero, in tenths of a percent
PIN_RESPONSE_ACCEPTED == 26
PIN_RESPONSE_REJECTED == 24
PIN_RESPONSE_REJECTED_ALT == 0
PIN_RESPONSE_REJECTED_1B == 27
PIN_RESPONSE_NOT_SET == 31
PIN_RESPONSE_STATUS_BYTE_INDEX == 5
CAL_STOP_TIMEOUT_MS == 5000
CAL_STOP_SETTLE_MS == 200
ZERO_MIN_T == 5
POS_MAX_T == 1000

Axes == {"head", "feet"}
NoAddr == "none"
Procs == {"poll", "ka", "stopbtn", "hold", "switch", "mover", "calstart", "calstart2",
          "cal", "calstop", "system", "both", "scan1", "scan2", "scan3", "reset"}
\* processes that can await async_run_movement_for_duration
BCallers == {"mover", "calstop", "both"}

CMD_STOP == "STOP"
CMD_HEAD_UP == "HEAD_UP"
CMD_HEAD_DOWN == "HEAD_DOWN"
CMD_FEET_UP == "FEET_UP"
CMD_FEET_DOWN == "FEET_DOWN"
CMD_BOTH_UP == "BOTH_UP"
CMD_BOTH_DOWN == "BOTH_DOWN"
\* 40 20 7F 00 00 E1 40
CMD_APP_INIT == "APP_INIT"
\* _make_keep_alive(pin): the keep-alive frame carrying the PIN digits
MakeKeepAlive == "KEEP_ALIVE"
UpCommands == {CMD_HEAD_UP, CMD_FEET_UP, CMD_BOTH_UP}

VARIABLES
  advertised,            \* the bed is currently seen by some adapter
  entry_address,         \* entry.data[CONF_DEVICE_ADDRESS]
  field_address,         \* self._device_address
  position,              \* [axis -> self._head_position / self._feet_position]
  cal_field,             \* [axis -> self._head_calibration_ms / _feet_calibration_ms]
  cal_opt,               \* [axis -> calibration seconds stored in the entry, as ms]
  movement_active,       \* self._movement_active
  calibration_active,    \* self._calibration_active
  calibration_stopping,  \* self._calibration_stopping
  calibration_mode,      \* self._calibration_mode: 0 idle, 1 head, 2 feet
  authenticated,         \* self._authenticated
  device_has_no_pin,     \* self._device_has_no_pin
  last_end_set,          \* self._last_movement_end_time has been set
  client,                \* [p -> the coroutine's own BLE client is connected]
  cmdClient,             \* [p -> the client of a nested _send_command is connected]
  faults,                \* faults still to be injected
  touched,               \* [p -> p called establish_connection in its current operation]
  flips,                 \* visibility changes still to happen
  pc,                    \* [p -> position of the process]
  sc,                    \* [p -> state of the _send_command it awaits]
  ss,                    \* [p -> state of the async_send_stop it awaits]
  b,                     \* [p -> state of the async_run_movement_for_duration it awaits]
  m,                     \* locals of the move-to-position operation
  h,                     \* locals of the hold-movement switch and its task
  c,                     \* locals of the calibration task and handlers
  vp,                    \* locals of validate_pin (config flow)
  sy,                    \* locals of async_send_system_command
  bt,                    \* locals of the both-sections cover's _run_both_to_position
  ts,                    \* the diagnostic scan: its fields and its tasks
  kt,                    \* self._keep_alive_task and the keep-alive tasks alive
  reg,                   \* the entry's title and nickname, the configured name, the adverts seen
  pl                     \* locals of the poll cycle and the keep-alive loop

vars == <<advertised, entry_address, field_address, position, cal_field, cal_opt,
          movement_active, calibration_active, calibration_stopping,
          calibration_mode, authenticated, device_has_no_pin, last_end_set,
          client, cmdClient, faults, touched, flips, pc, sc, ss, b, m, h, c, pl, vp, reg, kt, sy, bt, ts>>

addrVars == <<advertised, entry_address, field_address>>
envVars == <<addrVars, flips>>
calVars == <<cal_field, cal_opt>>
flagVars == <<movement_active, calibration_active, calibration_stopping,
              calibration_mode, last_end_set>>
authVars == <<authenticated, device_has_no_pin>>
localVars == <<m, h, c, pl>>
\* state of the operations outside the coordinator's streams and poll cycle
extVars == <<vp, reg, kt, sy, bt, ts>>
\* extVars without vp, without reg, without kt, without sy, without bt, without ts
extButVp == <<reg, kt, sy, bt, ts>>
extButReg == <<vp, kt, sy, bt, ts>>
extButKt == <<vp, reg, sy, bt, ts>>
extButSy == <<vp, reg, kt, bt, ts>>
extButBt == <<vp, reg, kt, sy, ts>>
extButTs == <<vp, reg, kt, sy, bt>>

\* ----------------------------------------------------------------- helpers
Min(x, y) == IF x <= y THEN x ELSE y
Max(x, y) == IF x >= y THEN x ELSE y
Abs(x) == IF x >= 0 THEN x ELSE -x

\* max(0.0, min(100.0, value)) in set_head_position / set_feet_position
ClampPosition(v) == Max(0, Min(POS_MAX_T, v))

\* the device_address property
device_address == IF entry_address # NoAddr THEN entry_address ELSE field_address

\* _address_present(addr)
AddressPresent == device_address # NoAddr /\ advertised

\* _get_ble_device() returns a device
BleDeviceAvailable == device_address # NoAddr /\ advertised

\* the head_calibration_ms / feet_calibration_ms properties
calibration_ms(a) == Max(MIN_CALIBRATION_MS, Min(MAX_CALIBRATION_MS, cal_opt[a]))

\* outcomes of one BLE call
Outcomes == IF faults > 0 THEN {"ok", "charnf", "other"} ELSE {"ok"}
Spend(o) == IF o = "ok" THEN faults ELSE faults - 1

\* number of open BLE clients
OpenClients == Cardinality({p \in Procs : client[p]}) + Cardinality({p \in Procs : cmdClient[p]})

\* ------------------------------------------------- _send_command (sc[p])
\* auth: the local auth_cmd, "none" while it is not assigned; data: the frame
\* to send, by name; link: the local client, "none", "connected", or "dropped"
\* when the link went down under a write (is_connected False); connects:
\* calls of establish_connection; opened: those that gave a client; dropped:
\* clients whose link went down; disconnects: calls of client.disconnect();
\* writes: the frames written; err1: the error of the first attempt; backoff:
\* the time slept after it, in ms
SCOff == [pc |-> "off", attempt |-> 0, result |-> FALSE, err |-> "none", auth |-> "none",
          data |-> CMD_STOP, link |-> "none", connects |-> 0, opened |-> 0,
          dropped |-> 0, disconnects |-> 0, writes |-> <<>>, err1 |-> "none",
          backoff |-> 0]

\* the frame async_send_system_command has built, by name
SystemData == "SYSTEM"

\* _get_auth_command(): app-init when the bed has no PIN, else the keep-alive frame
AuthCommand == IF device_has_no_pin THEN CMD_APP_INIT ELSE MakeKeepAlive

\* entry of _send_command: no BLE device -> return False at once;
\* auth_cmd = self._get_auth_command() before the attempts
SendCommandStart ==
  IF BleDeviceAvailable
    THEN [SCOff EXCEPT !.pc = "connect", !.auth = AuthCommand]
    ELSE [SCOff EXCEPT !.pc = "ret"]

\* _send_command(data) for a frame other than CMD_STOP
SendCommand(data) == [SendCommandStart EXCEPT !.data = data]

\* the frames one attempt writes: auth_cmd first unless data is auth_cmd
SendFrames(data, auth) == IF data # auth THEN <<auth, data>> ELSE <<data>>

\* a backoff that does not look at the error
SendBackoffShort(err) == SEND_BACKOFF_SHORT_MS

\* backoff = 4.0 if "characteristic" in err and "not found" in err else 1.0
SendBackoff(err) == IF err = "charnf" THEN SEND_BACKOFF_LONG_MS ELSE SEND_BACKOFF_SHORT_MS

\* client = await establish_connection(...)
SC_Connect(p) ==
  /\ sc[p].pc = "connect"
  /\ \E o \in Outcomes :
       /\ faults' = Spend(o)
       /\ touched' = [touched EXCEPT ![p] = TRUE]
       /\ IF o = "ok"
            THEN /\ cmdClient' = [cmdClient EXCEPT ![p] = TRUE]
                 /\ sc' = [sc EXCEPT ![p].pc = "write", ![p].link = "connected",
                                     ![p].connects = @ + 1, ![p].opened = @ + 1]
            ELSE /\ cmdClient' = cmdClient
                 /\ sc' = [sc EXCEPT ![p].pc = "cleanup", ![p].err = o,
                                     ![p].link = "none", ![p].connects = @ + 1]
  /\ UNCHANGED <<envVars, calVars, extVars, flagVars, authVars, localVars, position,
                 client, pc, ss, b>>

\* sleep; write auth_cmd unless data is the auth frame; sleep; write data; return True
\* a write that raises leaves the frames before it written and the link up or down
SC_Write(p) ==
  /\ sc[p].pc = "write"
  /\ LET frames == SendFrames(sc[p].data, sc[p].auth) IN
     \E o \in Outcomes :
       /\ faults' = Spend(o)
       /\ IF o = "ok"
            THEN /\ sc' = [sc EXCEPT ![p].pc = "cleanup", ![p].result = TRUE,
                                     ![p].err = "none", ![p].writes = @ \o frames]
                 /\ cmdClient' = cmdClient
            ELSE \E k \in 0..(Len(frames) - 1), up \in BOOLEAN :
                   /\ sc' = [sc EXCEPT ![p].pc = "cleanup", ![p].result = FALSE,
                                       ![p].err = o,
                                       ![p].writes = @ \o SubSeq(frames, 1, k),
                                       ![p].link = IF up THEN "connected" ELSE "dropped",
                                       ![p].dropped = IF up THEN @ ELSE @ + 1]
                   /\ cmdClient' = [cmdClient EXCEPT ![p] = up]
  /\ UNCHANGED <<envVars, calVars, extVars, flagVars, authVars, localVars, position, touched,
                 client, pc, ss, b>>

\* _safe_disconnect(client): nothing for None, disconnect() only if
\* client.is_connected
SafeDisconnect(r) ==
  [r EXCEPT !.link = "none",
            !.disconnects = IF r.link = "connected" THEN @ + 1 ELSE @]

\* except: backoff sleep on the first attempt; finally: _safe_disconnect; next attempt
SC_Cleanup(p) ==
  /\ sc[p].pc = "cleanup"
  /\ cmdClient' = [cmdClient EXCEPT ![p] = FALSE]
  /\ sc' = [sc EXCEPT ![p] =
              IF sc[p].result THEN [SafeDisconnect(@) EXCEPT !.pc = "ret"]
              ELSE IF sc[p].attempt + 1 < SEND_ATTEMPTS
                THEN [SafeDisconnect(@) EXCEPT !.pc = "connect", !.attempt = @ + 1,
                                               !.err1 = sc[p].err,
                                               !.backoff = SendBackoff(sc[p].err)]
                ELSE [SafeDisconnect(@) EXCEPT !.pc = "ret"]]
  /\ UNCHANGED <<envVars, calVars, extVars, flagVars, authVars, localVars, position, touched,
                 client, faults, pc, ss, b>>

\* ------------------------------------------------- async_send_stop (ss[p])
\* slept: time spent in the sleeps of async_send_stop, in ms
SSOff == [pc |-> "off", result |-> FALSE, slept |-> 0, auth |-> "none"]

\* entry of async_send_stop: no BLE device -> return False at once;
\* auth_cmd = self._get_auth_command() before connecting
SendStopStart ==
  IF BleDeviceAvailable THEN [SSOff EXCEPT !.pc = "connect", !.auth = AuthCommand]
                        ELSE [SSOff EXCEPT !.pc = "ret"]

\* client = await establish_connection(...); a failure returns False
SS_Connect(p) ==
  /\ ss[p].pc = "connect"
  /\ \E o \in Outcomes :
       /\ faults' = Spend(o)
       /\ touched' = [touched EXCEPT ![p] = TRUE]
       /\ IF o = "ok"
            THEN /\ client' = [client EXCEPT ![p] = TRUE]
                 /\ ss' = [ss EXCEPT ![p].pc = "write"]
            ELSE /\ client' = client
                 /\ ss' = [ss EXCEPT ![p].pc = "ret"]
  /\ UNCHANGED <<envVars, calVars, extVars, flagVars, authVars, localVars, position,
                 cmdClient, pc, sc, b>>

SS_WriteZeroes(p) ==
  /\ ss[p].pc = "write"
  /\ \E o \in Outcomes :
       /\ faults' = Spend(o)
       /\ ss' = [ss EXCEPT ![p].pc = "disc", ![p].result = (o = "ok"),
                           ![p].slept = IF o = "ok"
                                          THEN DELAY_AFTER_CONNECT_MS + KEEP_ALIVE_DELAY_MS
                                               + STOP_GAP_MS
                                          ELSE DELAY_AFTER_CONNECT_MS]
  /\ position' = [a \in Axes |-> 0]
  /\ UNCHANGED <<envVars, calVars, extVars, flagVars, authVars, localVars, touched,
                 client, cmdClient, pc, sc, b>>

\* sleep 1.0; write auth; sleep 0.05; write stop; sleep 0.1; write stop
\* (a failing write is taken to be the first one)
SS_Write(p) ==
  /\ ss[p].pc = "write"
  /\ \E o \in Outcomes :
       /\ faults' = Spend(o)
       /\ ss' = [ss EXCEPT ![p].pc = "disc", ![p].result = (o = "ok"),
                           ![p].slept = IF o = "ok"
                                          THEN DELAY_AFTER_CONNECT_MS + KEEP_ALIVE_DELAY_MS
                                               + STOP_GAP_MS
                                          ELSE DELAY_AFTER_CONNECT_MS]
  /\ UNCHANGED <<envVars, calVars, extVars, flagVars, authVars, localVars, position, touched,
                 client, cmdClient, pc, sc, b>>

\* finally: await _safe_disconnect(client)
SS_Disc(p) ==
  /\ ss[p].pc = "disc"
  /\ client' = [client EXCEPT ![p] = FALSE]
  /\ ss' = [ss EXCEPT ![p].pc = "ret"]
  /\ UNCHANGED <<envVars, calVars, extVars, flagVars, authVars, localVars, position, touched,
                 cmdClient, faults, pc, sc, b>>

\* ------------------------------------------------ position interpolation
\* (elapsed / max(0.1, cal_sec)) * 100.0, in tenths of a percent
Delta(elapsed, cal) == (elapsed * 1000) \div Max(100, cal)

\* both_cal = max(head_cal_sec, feet_cal_sec)
BothCal == Max(calibration_ms("head"), calibration_ms("feet"))

InterpolatedUnbounded(cmd, start, elapsed) ==
  [a \in Axes |->
     IF cmd = CMD_HEAD_UP /\ a = "head"
       THEN start[a] + Delta(elapsed, calibration_ms("head"))
     ELSE IF cmd = CMD_HEAD_DOWN /\ a = "head"
       THEN start[a] - Delta(elapsed, calibration_ms("head"))
     ELSE IF cmd = CMD_FEET_UP /\ a = "feet"
       THEN start[a] + Delta(elapsed, calibration_ms("feet"))
     ELSE IF cmd = CMD_FEET_DOWN /\ a = "feet"
       THEN start[a] - Delta(elapsed, calibration_ms("feet"))
     ELSE IF cmd = CMD_BOTH_UP THEN start[a] + Delta(elapsed, BothCal)
     ELSE IF cmd = CMD_BOTH_DOWN THEN start[a] - Delta(elapsed, BothCal)
     ELSE position[a]]

\* the estimate written by the stream loops: set_*_position(min(100, start + delta))
\* or set_*_position(max(0, start - delta)) on the axes the command drives
Interpolated(cmd, start, elapsed) ==
  [a \in Axes |->
     IF cmd = CMD_HEAD_UP /\ a = "head"
       THEN ClampPosition(Min(POS_MAX_T, start[a] + Delta(elapsed, calibration_ms("head"))))
     ELSE IF cmd = CMD_HEAD_DOWN /\ a = "head"
       THEN ClampPosition(Max(0, start[a] - Delta(elapsed, calibration_ms("head"))))
     ELSE IF cmd = CMD_FEET_UP /\ a = "feet"
       THEN ClampPosition(Min(POS_MAX_T, start[a] + Delta(elapsed, calibration_ms("feet"))))
     ELSE IF cmd = CMD_FEET_DOWN /\ a = "feet"
       THEN ClampPosition(Max(0, start[a] - Delta(elapsed, calibration_ms("feet"))))
     ELSE IF cmd = CMD_BOTH_UP
       THEN ClampPosition(Min(POS_MAX_T, start[a] + Delta(elapsed, BothCal)))
     ELSE IF cmd = CMD_BOTH_DOWN
       THEN ClampPosition(Max(0, start[a] - Delta(elapsed, BothCal)))
     ELSE position[a]]

\* ------------------------- async_run_movement_for_duration (b[p])
\* since = loop.time() - start_time once start_time has been assigned; it is
\* not reset when a later attempt fails before assigning start_time again.
\* ended: the streaming loop was left because the duration had elapsed;
\* stops: stop frames written on the current connection after the loop;
\* connects, errs, err1, err1_at, nodev, stop_sends record what happened;
\* streamed: the time the streaming loop has run, all attempts together.
BOff == [pc |-> "off", cmd |-> CMD_STOP, dur |-> 0, attempt |-> 0,
         elapsed_total |-> 0, start_set |-> FALSE, since |-> 0, remaining |-> 0,
         start |-> [a \in Axes |-> 0], result |-> FALSE, err |-> "none",
         stops |-> 0, connects |-> 0, errs |-> 0, err1 |-> "none",
         err1_at |-> 0, nodev |-> FALSE, stop_sends |-> 0, entered |-> FALSE,
         ended |-> FALSE, streamed |-> 0]

\* the synchronous head of async_run_movement_for_duration
ForDurationStart(cmd, dur) ==
  IF dur <= 0 THEN [BOff EXCEPT !.pc = "ret", !.cmd = cmd, !.dur = dur, !.result = TRUE]
  ELSE IF ~BleDeviceAvailable
    THEN [BOff EXCEPT !.pc = "ret", !.cmd = cmd, !.dur = dur, !.result = FALSE]
    ELSE [BOff EXCEPT !.pc = "top", !.cmd = cmd, !.dur = dur, !.entered = TRUE]

\* self.set_movement_active(True) is reached
ForDurationSetsActive(dur) == dur > 0 /\ BleDeviceAvailable

\* remaining = duration_sec - elapsed_total
RemainingRestart(dur, elapsed_total) == dur
Remaining(dur, elapsed_total) == dur - elapsed_total

\* attempt < 2 and is_char_not_found
MayResumeAlways(attempt, err) == err = "charnf"
MayResume(attempt, err) == attempt < MOVE_ATTEMPTS - 1 /\ err = "charnf"

\* the exception bookkeeping shared by every raising step
BRaise(r, o, at) ==
  [r EXCEPT !.pc = "except", !.err = o, !.errs = @ + 1,
            !.err1 = IF r.errs = 0 THEN o ELSE @,
            !.err1_at = IF r.errs = 0 THEN at ELSE @]

\* for attempt in range(3): remaining = duration - elapsed_total;
\* if remaining <= 0.1: return True; client = await establish_connection(...)
B_Top(p) ==
  /\ b[p].pc = "top"
  /\ LET remaining == Remaining(b[p].dur, b[p].elapsed_total) IN
       IF remaining <= RESUME_MIN_REMAINING_MS
         THEN /\ b' = [b EXCEPT ![p].pc = "finally", ![p].result = TRUE,
                                ![p].remaining = remaining]
              /\ UNCHANGED <<client, faults, touched>>
         ELSE \E o \in Outcomes :
                /\ faults' = Spend(o)
                /\ touched' = [touched EXCEPT ![p] = TRUE]
                /\ IF o = "ok"
                     THEN /\ client' = [client EXCEPT ![p] = TRUE]
                          /\ b' = [b EXCEPT ![p].pc = "pre", ![p].remaining = remaining,
                                            ![p].connects = @ + 1, ![p].ended = FALSE,
                                            ![p].stops = 0]
                     ELSE /\ client' = client
                          /\ b' = [b EXCEPT ![p] =
                                     BRaise([@ EXCEPT !.remaining = remaining,
                                                      !.connects = @ + 1], o, 0)]
  /\ UNCHANGED <<envVars, calVars, extVars, flagVars, authVars, localVars, position,
                 cmdClient, pc, sc, ss>>

\* sleep 0.2; write auth; sleep 0.05; write stop; sleep 0.1; write stop; sleep 0.1;
\* start_time = loop.time(); start_head / start_feet = current positions
B_Pre(p) ==
  /\ b[p].pc = "pre"
  /\ \E o \in Outcomes :
       /\ faults' = Spend(o)
       /\ IF o = "ok"
            THEN b' = [b EXCEPT ![p].pc = "stream", ![p].start_set = TRUE,
                                ![p].since = 0, ![p].start = position, ![p].stops = 0]
            ELSE \E k \in 1..3 :
                   LET waited == IF k = 1 THEN DELAY_AFTER_CONNECT_MOVEMENT_MS
                                 ELSE IF k = 2
                                   THEN DELAY_AFTER_CONNECT_MOVEMENT_MS + KEEP_ALIVE_DELAY_MS
                                   ELSE DELAY_AFTER_CONNECT_MOVEMENT_MS + KEEP_ALIVE_DELAY_MS
                                        + DELAY_AFTER_STOP_SAME_CONN_MS
                       at == IF b[p].start_set THEN b[p].since + waited ELSE 0
                   IN b' = [b EXCEPT ![p] = BRaise([@ EXCEPT !.since = at], o, 0)]
  /\ UNCHANGED <<envVars, calVars, extVars, flagVars, authVars, localVars, position, touched,
                 client, cmdClient, pc, sc, ss>>

\* while loop.time() < end_ts: write command; update the estimate; sleep 0.34
B_Stream(p) ==
  /\ b[p].pc = "stream"
  /\ b[p].since < b[p].remaining
  /\ \E o \in Outcomes :
       /\ faults' = Spend(o)
       /\ IF o = "ok"
            THEN /\ position' = Interpolated(b[p].cmd, b[p].start, b[p].since)
                 /\ b' = [b EXCEPT ![p].since = @ + MOVEMENT_COMMAND_INTERVAL_MS,
                                   ![p].streamed = @ + MOVEMENT_COMMAND_INTERVAL_MS]
            ELSE /\ position' = position
                 /\ b' = [b EXCEPT ![p] = BRaise(@, o, b[p].since)]
  /\ UNCHANGED <<envVars, calVars, extVars, flagVars, authVars, localVars, touched,
                 client, cmdClient, pc, sc, ss>>

\* after the loop: write stop; sleep 0.1; write stop; return True
B_Stop(p) ==
  /\ b[p].pc = "stream"
  /\ b[p].since >= b[p].remaining
  /\ \E o \in Outcomes :
       /\ faults' = Spend(o)
       /\ IF o = "ok"
            THEN b' = [b EXCEPT ![p].pc = "finally", ![p].result = TRUE, ![p].stops = 2,
                                ![p].ended = TRUE]
            ELSE \E k \in 1..2 :
                   b' = [b EXCEPT ![p] =
                           BRaise([@ EXCEPT !.stops = k - 1, !.ended = TRUE,
                                            !.since = @ + (k - 1) * STOP_GAP_MS],
                                  o, b[p].since + (k - 1) * STOP_GAP_MS)]
  /\ UNCHANGED <<envVars, calVars, extVars, flagVars, authVars, localVars, position, touched,
                 client, cmdClient, pc, sc, ss>>

\* except Exception: await _safe_disconnect(client); client = None;
\* elapsed_total += max(0, loop.time() - start_time if start_time > 0 else 0);
\* attempt < 2 and characteristic-not-found -> resume, else _send_command(CMD_STOP)
B_Except(p) ==
  /\ b[p].pc = "except"
  /\ client' = [client EXCEPT ![p] = FALSE]
  /\ LET elapsed_this_attempt == IF b[p].start_set THEN b[p].since ELSE 0
         total == b[p].elapsed_total + Max(0, elapsed_this_attempt)
     IN IF MayResume(b[p].attempt, b[p].err)
          THEN /\ b' = [b EXCEPT ![p].pc = "retry", ![p].elapsed_total = total]
               /\ sc' = sc
          ELSE /\ b' = [b EXCEPT ![p].pc = "abort", ![p].elapsed_total = total,
                                 ![p].stop_sends = @ + 1]
               /\ sc' = [sc EXCEPT ![p] = SendCommandStart]
  /\ UNCHANGED <<envVars, calVars, extVars, flagVars, authVars, localVars, position, touched,
                 cmdClient, faults, pc, ss>>

\* await asyncio.sleep(1.0); ble_device = self._get_ble_device();
\* no device -> _send_command(CMD_STOP), return False; else continue
B_Retry(p) ==
  /\ b[p].pc = "retry"
  /\ LET later == IF b[p].start_set THEN b[p].since + RESUME_PAUSE_MS ELSE b[p].since IN
       IF BleDeviceAvailable
         THEN /\ b' = [b EXCEPT ![p].pc = "top", ![p].attempt = @ + 1, ![p].since = later]
              /\ sc' = sc
         ELSE /\ b' = [b EXCEPT ![p].pc = "abort", ![p].since = later,
                                ![p].nodev = TRUE, ![p].stop_sends = @ + 1]
              /\ sc' = [sc EXCEPT ![p] = SendCommandStart]
  /\ UNCHANGED <<envVars, calVars, extVars, flagVars, authVars, localVars, position, touched,
                 client, cmdClient, faults, pc, ss>>

\* the awaited _send_command(CMD_STOP) has returned: return False
B_Abort(p) ==
  /\ b[p].pc = "abort"
  /\ sc[p].pc = "ret"
  /\ sc' = [sc EXCEPT ![p] = SCOff]
  /\ b' = [b EXCEPT ![p].pc = "finally", ![p].result = FALSE]
  /\ UNCHANGED <<envVars, calVars, extVars, flagVars, authVars, localVars, position, touched,
                 client, cmdClient, faults, pc, ss>>

\* finally: await _safe_disconnect(client); set_movement_active(False);
\* self._last_movement_end_time = loop.time()
B_Finally(p) ==
  /\ b[p].pc = "finally"
  /\ client' = [client EXCEPT ![p] = FALSE]
  /\ movement_active' = FALSE
  /\ last_end_set' = TRUE
  /\ b' = [b EXCEPT ![p].pc = "ret"]
  /\ UNCHANGED <<envVars, calVars, extVars, authVars, localVars, position, touched,
                 calibration_active, calibration_stopping, calibration_mode,
                 cmdClient, faults, pc, sc, ss>>

\* --------------------------------- move to position (the "mover" process)
\* Service path: async_set_head_position / async_set_feet_position.
\* Cover path: the cover entities' _run_to_position.
\* current and cal keep the values read when the duration was computed.
\* ok: the value the operation returned from its last movement.
MOff == [path |-> "none", axis |-> "head", target |-> 0, attempt |-> 0,
         duration |-> 0, noop |-> FALSE, current |-> 0, cal |-> 0, ok |-> FALSE]

OtherAxis(a) == IF a = "head" THEN "feet" ELSE "head"

PositionAfterMoveAlways(ok, a, target) ==
  [position EXCEPT ![a] = ClampPosition(target)]

\* if ok: self.set_head_position(position)  (set_feet_position for the feet)
PositionAfterMove(ok, a, target) ==
  IF ok THEN [position EXCEPT ![a] = ClampPosition(target)] ELSE position

\* int((diff / 100.0) * cal_ms), then max(300, min(cal_ms, duration_ms))
DurationMs(diff, cal) == Max(MIN_DURATION_MS, Min(cal, (diff * cal) \div 1000))

UpCmd(a) == IF a = "head" THEN CMD_HEAD_UP ELSE CMD_FEET_UP
DownCmd(a) == IF a = "head" THEN CMD_HEAD_DOWN ELSE CMD_FEET_DOWN

\* async_set_head_position(position) / async_set_feet_position(position), up to the
\* first await inside async_run_movement_for_duration
M_StartService(a, target) ==
  /\ pc["mover"] = "idle"
  /\ touched' = [touched EXCEPT !["mover"] = FALSE]
  /\ LET tgt == ClampPosition(target)
         current == position[a]
         diff == Abs(tgt - current)
         dur == DurationMs(diff, cal_field[a])
         cmd == IF tgt > current THEN UpCmd(a) ELSE DownCmd(a)
     IN IF diff < NOOP_DIFF_T
          THEN /\ m' = [MOff EXCEPT !.path = "service", !.axis = a, !.target = tgt,
                                    !.noop = TRUE, !.current = current,
                                    !.cal = cal_field[a]]
               /\ pc' = [pc EXCEPT !["mover"] = "done"]
               /\ UNCHANGED <<b, movement_active>>
          ELSE /\ m' = [MOff EXCEPT !.path = "service", !.axis = a, !.target = tgt,
                                    !.duration = dur, !.current = current,
                                    !.cal = cal_field[a]]
               /\ pc' = [pc EXCEPT !["mover"] = "svc_run"]
               /\ b' = [b EXCEPT !["mover"] = ForDurationStart(cmd, dur)]
               /\ movement_active' = (ForDurationSetsActive(dur) \/ movement_active)
  /\ UNCHANGED <<envVars, calVars, extVars, authVars, position, h, c, pl,
                 calibration_active, calibration_stopping, calibration_mode,
                 last_end_set, client, cmdClient, faults, sc, ss>>

\* ok = await async_run_movement_for_duration(...); if ok: set_*_position(position)
M_ServiceReturn ==
  /\ pc["mover"] = "svc_run"
  /\ b["mover"].pc = "ret"
  /\ position' = PositionAfterMove(b["mover"].result, m.axis, m.target)
  /\ m' = [m EXCEPT !.ok = b["mover"].result]
  /\ b' = [b EXCEPT !["mover"] = BOff]
  /\ pc' = [pc EXCEPT !["mover"] = "done"]
  /\ UNCHANGED <<envVars, calVars, extVars, flagVars, authVars, h, c, pl, touched,
                 client, cmdClient, faults, sc, ss>>

\* abs(position - 100) < 2 or abs(position) < 2
AtLimit(a) == Abs(position[a] - POS_MAX_T) < AT_LIMIT_T \/ Abs(position[a]) < AT_LIMIT_T

\* _run_to_position(target): set_movement_active(True); unless at a limit,
\* await coordinator.async_send_stop()
M_StartCover(a, target) ==
  /\ pc["mover"] = "idle"
  /\ touched' = [touched EXCEPT !["mover"] = FALSE]
  /\ movement_active' = TRUE
  /\ m' = [MOff EXCEPT !.path = "cover", !.axis = a, !.target = target]
  /\ IF AtLimit(a)
       THEN /\ pc' = [pc EXCEPT !["mover"] = "cov_loop"]
            /\ ss' = ss
       ELSE /\ pc' = [pc EXCEPT !["mover"] = "cov_prestop"]
            /\ ss' = [ss EXCEPT !["mover"] = SendStopStart]
  /\ UNCHANGED <<envVars, calVars, extVars, authVars, position, h, c, pl,
                 calibration_active, calibration_stopping, calibration_mode,
                 last_end_set, client, cmdClient, faults, sc, b>>

\* async_send_stop() has returned; await asyncio.sleep(0.1)
M_CoverAfterStop ==
  /\ pc["mover"] = "cov_prestop"
  /\ ss["mover"].pc = "ret"
  /\ ss' = [ss EXCEPT !["mover"] = SSOff]
  /\ pc' = [pc EXCEPT !["mover"] = "cov_loop"]
  /\ UNCHANGED <<envVars, calVars, extVars, flagVars, authVars, localVars, position, touched,
                 client, cmdClient, faults, sc, b>>

\* one pass of "for attempt in range(2)" up to the first await inside
\* async_run_movement_for_duration; diff < 0.5 returns through the finally
M_CoverAttempt ==
  /\ pc["mover"] = "cov_loop"
  /\ LET a == m.axis
         current == position[a]
         cal_ms == calibration_ms(a)
         diff == Abs(m.target - current)
         dur == DurationMs(diff, cal_ms)
         cmd == IF m.target > current THEN UpCmd(a) ELSE DownCmd(a)
     IN IF diff < NOOP_DIFF_T
          THEN /\ m' = [m EXCEPT !.noop = (m.attempt = 0), !.duration = 0,
                                 !.current = current, !.cal = cal_ms]
               /\ pc' = [pc EXCEPT !["mover"] = "done"]
               /\ movement_active' = FALSE
               /\ b' = b
          ELSE /\ m' = [m EXCEPT !.duration = dur, !.current = current, !.cal = cal_ms]
               /\ pc' = [pc EXCEPT !["mover"] = "cov_run"]
               /\ b' = [b EXCEPT !["mover"] = ForDurationStart(cmd, dur)]
               /\ movement_active' = (ForDurationSetsActive(dur) \/ movement_active)
  /\ UNCHANGED <<envVars, calVars, extVars, authVars, position, touched, h, c, pl,
                 calibration_active, calibration_stopping, calibration_mode,
                 last_end_set, client, cmdClient, faults, sc, ss>>

\* ok: set_pos(target), break; else sleep 0.5 after the first attempt;
\* after the loop the finally clears movement_active
M_CoverReturn ==
  /\ pc["mover"] = "cov_run"
  /\ b["mover"].pc = "ret"
  /\ b' = [b EXCEPT !["mover"] = BOff]
  /\ position' = PositionAfterMove(b["mover"].result, m.axis, m.target)
  /\ IF b["mover"].result
       THEN /\ pc' = [pc EXCEPT !["mover"] = "done"]
            /\ movement_active' = FALSE
            /\ m' = [m EXCEPT !.ok = TRUE]
       ELSE IF m.attempt + 1 < COVER_ATTEMPTS
         THEN /\ pc' = [pc EXCEPT !["mover"] = "cov_loop"]
              /\ movement_active' = movement_active
              /\ m' = [m EXCEPT !.attempt = @ + 1]
         ELSE /\ pc' = [pc EXCEPT !["mover"] = "done"]
              /\ movement_active' = FALSE
              /\ m' = m
  /\ UNCHANGED <<envVars, calVars, extVars, authVars, touched, h, c, pl,
                 calibration_active, calibration_stopping, calibration_mode,
                 last_end_set, client, cmdClient, faults, sc, ss>>

\* ------------- both sections to a position: _run_both_to_position ("both")
\* target: the argument; attempt: the pass of "for attempt in range(2)";
\* branch: "up", "down" (both sections travel the same way) or "seq";
\* head_current .. feet_duration: the locals of the pass; phases: the calls of
\* async_run_movement_for_duration made, each with its pass, its place k in
\* the pass, its command, its duration, the two durations of the pass and its
\* outcome; sets: the passes that
\* called set_head_position(target) and set_feet_position(target)
BTOff == [target |-> 0, attempt |-> 0, branch |-> "none",
          head_current |-> 0, feet_current |-> 0, head_diff |-> 0, feet_diff |-> 0,
          head_duration |-> 0, feet_duration |-> 0,
          head_ok |-> FALSE, feet_ok |-> FALSE, phases |-> <<>>, sets |-> {}]

\* both_at_limit
BothAtLimit == AtLimit("head") /\ AtLimit("feet")

\* (diff / 100.0) * (cal_ms / 1000.0) if diff >= 0.5 else 0.0, then max(0.3, .)
BothDurationMs(diff, cal) ==
  Max(MIN_DURATION_MS, IF diff >= NOOP_DIFF_T THEN (diff * cal) \div 1000 ELSE 0)

\* a first phase as long as the slower section needs
OverlapWindowLonger(head_duration, feet_duration) == Max(head_duration, feet_duration)

\* phase1 = min(head_duration_sec, feet_duration_sec)
OverlapWindow(head_duration, feet_duration) == Min(head_duration, feet_duration)

\* the state after "await coordinator.async_run_movement_for_duration(cmd, dur)"
\* is entered as call k of the pass
BothCall(r, cmd, dur, k, at) ==
  [bt |-> [r EXCEPT !.phases = Append(@, [attempt |-> r.attempt, branch |-> r.branch,
                                           k |-> k, cmd |-> cmd, dur |-> dur,
                                           head_duration |-> r.head_duration,
                                           feet_duration |-> r.feet_duration,
                                           ok |-> "running"])],
   pc |-> at,
   position |-> position,
   b |-> ForDurationStart(cmd, dur),
   active |-> (ForDurationSetsActive(dur) \/ movement_active)]

\* the phases with the outcome of the call that has returned
Returned(phases, ok) ==
  [phases EXCEPT ![Len(phases)].ok = IF ok THEN "ok" ELSE "failed"]

\* the end of a pass: set both positions when every movement of it succeeded;
\* break on all_ok or when neither section had to move; else sleep and go on
\* to the second pass; the finally clears movement_active
BothEnd(r, all_ok) ==
  LET done == all_ok \/ (r.head_diff < NOOP_DIFF_T /\ r.feet_diff < NOOP_DIFF_T)
      last == r.attempt + 1 >= COVER_ATTEMPTS
  IN [bt |-> [r EXCEPT !.sets = IF all_ok THEN @ \cup {r.attempt} ELSE @,
                       !.attempt = IF done \/ last THEN @ ELSE @ + 1],
      pc |-> IF done \/ last THEN "done" ELSE "loop",
      position |-> IF all_ok THEN [a \in Axes |-> ClampPosition(r.target)] ELSE position,
      b |-> BOff,
      active |-> IF done \/ last THEN FALSE ELSE movement_active]

\* the feet part of the sequential branch, entered with head_ok known
BothFeet(r) ==
  IF r.feet_diff >= NOOP_DIFF_T
    THEN BothCall(r, IF r.target > r.feet_current THEN CMD_FEET_UP ELSE CMD_FEET_DOWN,
                  r.feet_duration, IF r.head_diff >= NOOP_DIFF_T THEN 2 ELSE 1,
                  "seq_feet")
    ELSE BothEnd([r EXCEPT !.feet_ok = TRUE], r.head_ok)

\* one pass of the loop up to its first await
BothAttempt(r) ==
  LET head_current == position["head"]
      feet_current == position["feet"]
      head_diff == Abs(r.target - head_current)
      feet_diff == Abs(r.target - feet_current)
      head_duration == BothDurationMs(head_diff, calibration_ms("head"))
      feet_duration == BothDurationMs(feet_diff, calibration_ms("feet"))
      branch == IF r.target > head_current /\ r.target > feet_current THEN "up"
                ELSE IF r.target < head_current /\ r.target < feet_current THEN "down"
                ELSE "seq"
      q == [r EXCEPT !.branch = branch, !.head_current = head_current,
                     !.feet_current = feet_current, !.head_diff = head_diff,
                     !.feet_diff = feet_diff, !.head_duration = head_duration,
                     !.feet_duration = feet_duration, !.head_ok = FALSE,
                     !.feet_ok = FALSE]
  IN IF branch = "up"
       THEN BothCall(q, CMD_BOTH_UP, OverlapWindow(head_duration, feet_duration), 1, "phase1")
     ELSE IF branch = "down"
       THEN BothCall(q, CMD_BOTH_DOWN, OverlapWindow(head_duration, feet_duration), 1, "phase1")
     ELSE IF head_diff >= NOOP_DIFF_T
       THEN BothCall(q, IF r.target > head_current THEN CMD_HEAD_UP ELSE CMD_HEAD_DOWN,
                     head_duration, 1, "seq_head")
       ELSE BothFeet([q EXCEPT !.head_ok = TRUE])

\* after phase 1 of the same-direction branch
BothAfterPhase1(r, ok) ==
  LET phase1 == OverlapWindow(r.head_duration, r.feet_duration)
      head_remaining == r.head_duration - phase1
      feet_remaining == r.feet_duration - phase1
      up == r.branch = "up"
  IN IF ~ok THEN BothEnd(r, FALSE)
     ELSE IF head_remaining > RESUME_MIN_REMAINING_MS
       THEN BothCall(r, IF up THEN CMD_HEAD_UP ELSE CMD_HEAD_DOWN, head_remaining, 2, "phase2")
     ELSE IF feet_remaining > RESUME_MIN_REMAINING_MS
       THEN BothCall(r, IF up THEN CMD_FEET_UP ELSE CMD_FEET_DOWN, feet_remaining, 2, "phase2")
       ELSE BothEnd(r, TRUE)

\* the variables an outcome record nx of the operators above stands for
BothStep(nx) ==
  /\ bt' = nx.bt
  /\ pc' = [pc EXCEPT !["both"] = nx.pc]
  /\ position' = nx.position
  /\ b' = [b EXCEPT !["both"] = nx.b]
  /\ movement_active' = nx.active
  /\ UNCHANGED <<envVars, calVars, extButBt, authVars, touched, h, m, c, pl,
                 calibration_active, calibration_stopping, calibration_mode,
                 last_end_set, client, cmdClient, faults, sc, ss>>

\* _run_both_to_position(target): set_movement_active(True); unless both
\* sections are at a limit, await coordinator.async_send_stop()
BT_Start(target) ==
  /\ pc["both"] = "idle"
  /\ touched' = [touched EXCEPT !["both"] = FALSE]
  /\ movement_active' = TRUE
  /\ bt' = [BTOff EXCEPT !.target = target]
  /\ IF BothAtLimit
       THEN /\ pc' = [pc EXCEPT !["both"] = "loop"]
            /\ ss' = ss
       ELSE /\ pc' = [pc EXCEPT !["both"] = "prestop"]
            /\ ss' = [ss EXCEPT !["both"] = SendStopStart]
  /\ UNCHANGED <<envVars, calVars, extButBt, authVars, position, h, m, c, pl,
                 calibration_active, calibration_stopping, calibration_mode,
                 last_end_set, client, cmdClient, faults, sc, b>>

\* async_send_stop() has returned; await asyncio.sleep(0.1)
BT_AfterStop ==
  /\ pc["both"] = "prestop"
  /\ ss["both"].pc = "ret"
  /\ ss' = [ss EXCEPT !["both"] = SSOff]
  /\ pc' = [pc EXCEPT !["both"] = "loop"]
  /\ UNCHANGED <<envVars, calVars, extVars, flagVars, authVars, localVars, position, touched,
                 client, cmdClient, faults, sc, b>>

\* the head of a pass
BT_Attempt ==
  /\ pc["both"] = "loop"
  /\ BothStep(BothAttempt(bt))

\* ok = await async_run_movement_for_duration(CMD_BOTH_UP / CMD_BOTH_DOWN, phase1)
BT_Phase1Return ==
  /\ pc["both"] = "phase1"
  /\ b["both"].pc = "ret"
  /\ BothStep(BothAfterPhase1([bt EXCEPT !.phases = Returned(@, b["both"].result)],
                              b["both"].result))

\* ok = await async_run_movement_for_duration(the slower section's command, remaining)
BT_Phase2Return ==
  /\ pc["both"] = "phase2"
  /\ b["both"].pc = "ret"
  /\ BothStep(BothEnd([bt EXCEPT !.phases = Returned(@, b["both"].result)],
                      b["both"].result))

\* head_ok = await async_run_movement_for_duration(cmd, head_duration_sec)
BT_SeqHeadReturn ==
  /\ pc["both"] = "seq_head"
  /\ b["both"].pc = "ret"
  /\ BothStep(BothFeet([bt EXCEPT !.phases = Returned(@, b["both"].result),
                                  !.head_ok = b["both"].result]))

\* feet_ok = await async_run_movement_for_duration(cmd, feet_duration_sec)
BT_SeqFeetReturn ==
  /\ pc["both"] = "seq_feet"
  /\ b["both"].pc = "ret"
  /\ BothStep(BothEnd([bt EXCEPT !.phases = Returned(@, b["both"].result),
                                 !.feet_ok = b["both"].result],
                      bt.head_ok /\ b["both"].result))

\* ------------------ hold-to-move switch: async_run_movement_loop ("hold")
\* since = loop.time() - start_time; start_time is read before the connection
\* is made.  streamed: a directional command has been written; ended: the loop
\* was left by the cancel signal or a position limit; stops: stop frames
\* written on the stream's connection after the loop; stop_sends: calls of
\* _send_command(CMD_STOP); cancelled: the task was cancelled; reported: what
\* the coroutine gave its caller: "limit" / "no_limit" for the hit_limit it
\* returned, "raised" when it ended by re-raising CancelledError;
\* last_keep_alive: the local of that name, on the clock of since.
HOff == [cmd |-> CMD_STOP, start |-> [a \in Axes |-> 0], since |-> 0,
         stop_event |-> FALSE, hit_limit |-> FALSE, streamed |-> FALSE,
         ended |-> FALSE, stops |-> 0, stop_sends |-> 0, cancelled |-> FALSE,
         failed |-> FALSE, reported |-> "none", last_keep_alive |-> 0]

\* est for the hold loop's limit test: min/max over the axes the command drives
HoldEst(cmd, start, elapsed) ==
  IF cmd = CMD_HEAD_UP THEN start["head"] + Delta(elapsed, calibration_ms("head"))
  ELSE IF cmd = CMD_HEAD_DOWN THEN start["head"] - Delta(elapsed, calibration_ms("head"))
  ELSE IF cmd = CMD_FEET_UP THEN start["feet"] + Delta(elapsed, calibration_ms("feet"))
  ELSE IF cmd = CMD_FEET_DOWN THEN start["feet"] - Delta(elapsed, calibration_ms("feet"))
  ELSE IF cmd = CMD_BOTH_UP
    THEN Min(start["head"], start["feet"]) + Delta(elapsed, BothCal)
    ELSE Max(start["head"], start["feet"]) - Delta(elapsed, BothCal)

\* if est >= 100.0 (up) / est <= 0.0 (down)
HoldAtLimit(cmd, start, elapsed) ==
  IF cmd \in UpCommands THEN HoldEst(cmd, start, elapsed) >= POS_MAX_T
                        ELSE HoldEst(cmd, start, elapsed) <= 0

\* the estimate left as it is when the limit is reached
LimitPositionKept(cmd) == position

\* set_*_position(100.0) / set_*_position(0.0) on the axes the command drives
LimitPosition(cmd) ==
  [a \in Axes |->
     IF (a = "head" /\ cmd \in {CMD_HEAD_UP, CMD_BOTH_UP}) \/
        (a = "feet" /\ cmd \in {CMD_FEET_UP, CMD_BOTH_UP}) THEN ClampPosition(POS_MAX_T)
     ELSE IF (a = "head" /\ cmd \in {CMD_HEAD_DOWN, CMD_BOTH_DOWN}) \/
             (a = "feet" /\ cmd \in {CMD_FEET_DOWN, CMD_BOTH_DOWN}) THEN ClampPosition(0)
     ELSE position[a]]

\* switch.async_turn_on: create_task(async_run_movement_loop(cmd, stop_event.is_set));
\* the task runs to its first await: no device -> set_movement_active(False), return
H_TurnOn(cmd) ==
  /\ pc["hold"] = "idle"
  /\ touched' = [touched EXCEPT !["hold"] = FALSE]
  /\ IF BleDeviceAvailable
       THEN /\ movement_active' = TRUE
            /\ pc' = [pc EXCEPT !["hold"] = "connect"]
            /\ h' = [HOff EXCEPT !.cmd = cmd, !.start = position]
       ELSE /\ movement_active' = FALSE
            /\ pc' = [pc EXCEPT !["hold"] = "done"]
            /\ h' = [HOff EXCEPT !.cmd = cmd]
  /\ UNCHANGED <<envVars, calVars, extVars, authVars, position, m, c, pl,
                 calibration_active, calibration_stopping, calibration_mode,
                 last_end_set, client, cmdClient, faults, sc, ss, b>>

\* entering "except Exception": await self._send_command(CMD_STOP)
HoldRaise(r) == [r EXCEPT !.failed = TRUE, !.stop_sends = @ + 1]

\* client = await establish_connection(...)
H_Connect ==
  /\ pc["hold"] = "connect"
  /\ \E o \in Outcomes :
       /\ faults' = Spend(o)
       /\ touched' = [touched EXCEPT !["hold"] = TRUE]
       /\ IF o = "ok"
            THEN /\ client' = [client EXCEPT !["hold"] = TRUE]
                 /\ pc' = [pc EXCEPT !["hold"] = "auth"]
                 /\ UNCHANGED <<h, sc>>
            ELSE /\ client' = client
                 /\ pc' = [pc EXCEPT !["hold"] = "exc_wait"]
                 /\ h' = HoldRaise(h)
                 /\ sc' = [sc EXCEPT !["hold"] = SendCommandStart]
  /\ UNCHANGED <<envVars, calVars, extVars, flagVars, authVars, position, m, c, pl,
                 cmdClient, ss, b>>

\* sleep 1.0; write the auth frame; sleep 0.05
H_Auth ==
  /\ pc["hold"] = "auth"
  /\ \E o \in Outcomes :
       /\ faults' = Spend(o)
       /\ IF o = "ok"
            THEN /\ pc' = [pc EXCEPT !["hold"] = "loop"]
                 /\ h' = [h EXCEPT !.since = @ + DELAY_AFTER_CONNECT_MS + KEEP_ALIVE_DELAY_MS,
                                   !.last_keep_alive = h.since + DELAY_AFTER_CONNECT_MS
                                                       + KEEP_ALIVE_DELAY_MS]
                 /\ sc' = sc
            ELSE /\ pc' = [pc EXCEPT !["hold"] = "exc_wait"]
                 /\ h' = HoldRaise([h EXCEPT !.since = @ + DELAY_AFTER_CONNECT_MS])
                 /\ sc' = [sc EXCEPT !["hold"] = SendCommandStart]
  /\ UNCHANGED <<envVars, calVars, extVars, flagVars, authVars, position, touched, m, c, pl,
                 client, cmdClient, ss, b>>

\* a stream that writes its authentication frame once, after connecting
HoldReauthNever(since, last_keep_alive) == last_keep_alive

\* if now - last_keep_alive >= KEEP_ALIVE_ACTIVE_MOVEMENT_SEC: write the
\* authentication frame; last_keep_alive = now
HoldReauth(since, last_keep_alive) ==
  IF since - last_keep_alive >= KEEP_ALIVE_ACTIVE_MOVEMENT_MS THEN since ELSE last_keep_alive

\* one pass of "while not is_cancelled()": estimate, limit test, write,
\* re-authentication when due, sleep 0.34
H_Loop ==
  /\ pc["hold"] = "loop"
  /\ ~h.stop_event
  /\ IF HoldAtLimit(h.cmd, h.start, h.since)
       THEN /\ position' = LimitPosition(h.cmd)
            /\ h' = [h EXCEPT !.hit_limit = TRUE, !.ended = TRUE]
            /\ pc' = [pc EXCEPT !["hold"] = "stop"]
            /\ UNCHANGED <<faults, sc>>
       ELSE \E o \in Outcomes :
              /\ faults' = Spend(o)
              /\ position' = Interpolated(h.cmd, h.start, h.since)
              /\ IF o = "ok"
                   THEN /\ h' = [h EXCEPT !.since = @ + MOVEMENT_COMMAND_INTERVAL_MS,
                                          !.streamed = TRUE,
                                          !.last_keep_alive =
                                             HoldReauth(h.since, h.last_keep_alive)]
                        /\ UNCHANGED <<pc, sc>>
                   ELSE /\ pc' = [pc EXCEPT !["hold"] = "exc_wait"]
                        /\ h' = HoldRaise(h)
                        /\ sc' = [sc EXCEPT !["hold"] = SendCommandStart]
  /\ UNCHANGED <<envVars, calVars, extVars, flagVars, authVars, touched, m, c, pl,
                 client, cmdClient, ss, b>>

\* the loop is left: write stop; sleep 0.1; write stop
H_Stop ==
  /\ \/ pc["hold"] = "stop"
     \/ pc["hold"] = "loop" /\ h.stop_event
  /\ \E o \in Outcomes :
       /\ faults' = Spend(o)
       /\ IF o = "ok"
            THEN /\ pc' = [pc EXCEPT !["hold"] = "finally"]
                 /\ h' = [h EXCEPT !.ended = TRUE, !.stops = 2]
                 /\ sc' = sc
            ELSE \E k \in 1..2 :
                   /\ pc' = [pc EXCEPT !["hold"] = "exc_wait"]
                   /\ h' = HoldRaise([h EXCEPT !.ended = TRUE, !.stops = k - 1])
                   /\ sc' = [sc EXCEPT !["hold"] = SendCommandStart]
  /\ UNCHANGED <<envVars, calVars, extVars, flagVars, authVars, position, touched, m, c, pl,
                 client, cmdClient, ss, b>>

\* the handler's _send_command(CMD_STOP) has returned (it ran while the
\* stream's own client was still connected); the handler ends or re-raises
H_HandlerDone ==
  /\ pc["hold"] \in {"exc_wait", "cancel_wait"}
  /\ sc["hold"].pc = "ret"
  /\ sc' = [sc EXCEPT !["hold"] = SCOff]
  /\ pc' = [pc EXCEPT !["hold"] = "finally"]
  /\ UNCHANGED <<envVars, calVars, extVars, flagVars, authVars, localVars, position, touched,
                 client, cmdClient, faults, ss, b>>

\* finally: await _safe_disconnect(client); set_movement_active(False);
\* self._last_movement_end_time = loop.time(); then return (duration, hit_limit),
\* or the CancelledError raised again by its handler leaves the coroutine
H_Finally ==
  /\ pc["hold"] = "finally"
  /\ client' = [client EXCEPT !["hold"] = FALSE]
  /\ movement_active' = FALSE
  /\ last_end_set' = TRUE
  /\ pc' = [pc EXCEPT !["hold"] = "done"]
  /\ h' = [h EXCEPT !.reported = IF h.cancelled THEN "raised"
                                 ELSE IF h.hit_limit THEN "limit" ELSE "no_limit"]
  /\ UNCHANGED <<envVars, calVars, extVars, authVars, m, c, pl, position, touched,
                 calibration_active, calibration_stopping, calibration_mode,
                 cmdClient, faults, sc, ss, b>>

\* switch.async_turn_off: stop_event.set(); await wait_for(task, 5.0)
T_TurnOff ==
  /\ pc["switch"] = "idle"
  /\ pc["hold"] # "idle"
  /\ h' = [h EXCEPT !.stop_event = TRUE]
  /\ pc' = [pc EXCEPT !["switch"] = "wait"]
  /\ UNCHANGED <<envVars, calVars, extVars, flagVars, authVars, position, touched, m, c, pl,
                 client, cmdClient, faults, sc, ss, b>>

\* the task finished within the timeout, or after it was cancelled
T_Joined ==
  /\ pc["switch"] \in {"wait", "cancelling"}
  /\ pc["hold"] = "done"
  /\ pc' = [pc EXCEPT !["switch"] = "done"]
  /\ UNCHANGED <<envVars, calVars, extVars, flagVars, authVars, localVars, position, touched,
                 client, cmdClient, faults, sc, ss, b>>

\* the 5 s timeout expires: the task is cancelled and CancelledError is raised
\* at the await it is suspended in.
\*  - in the try body: "except CancelledError: await _send_command(CMD_STOP); raise"
\*  - in the "except Exception" handler: the awaited _send_command unwinds
\*    (its finally disconnects), then the finally of the movement loop runs
\*  - in the finally, awaiting _safe_disconnect(client): CancelledError is not an
\*    Exception, so it leaves _safe_disconnect and the finally block at once;
\*    whether the link was already closed is not determined
T_Timeout ==
  /\ pc["switch"] = "wait"
  /\ pc["hold"] \in {"connect", "auth", "loop", "stop", "exc_wait"}
       \/ (pc["hold"] = "finally" /\ client["hold"])
  /\ IF pc["hold"] \in {"connect", "auth", "loop", "stop"}
       THEN /\ pc' = [pc EXCEPT !["switch"] = "cancelling", !["hold"] = "cancel_wait"]
            /\ h' = [h EXCEPT !.cancelled = TRUE, !.stop_sends = @ + 1]
            /\ sc' = [sc EXCEPT !["hold"] = SendCommandStart]
            /\ UNCHANGED <<client, cmdClient>>
       ELSE IF pc["hold"] = "exc_wait"
         THEN /\ pc' = [pc EXCEPT !["switch"] = "cancelling", !["hold"] = "finally"]
              /\ h' = [h EXCEPT !.cancelled = TRUE]
              /\ sc' = [sc EXCEPT !["hold"] = SCOff]
              /\ cmdClient' = [cmdClient EXCEPT !["hold"] = FALSE]
              /\ client' = client
         ELSE /\ pc' = [pc EXCEPT !["switch"] = "cancelling", !["hold"] = "done"]
              /\ h' = [h EXCEPT !.cancelled = TRUE]
              /\ \E closed \in BOOLEAN :
                   client' = [client EXCEPT !["hold"] = ~closed]
              /\ UNCHANGED <<sc, cmdClient>>
  /\ UNCHANGED <<envVars, calVars, extVars, flagVars, authVars, position, touched, m, c, pl,
                 faults, ss, b>>

\* ------------------------------------------------------------ calibration
\* calstart: async_start_calibration_head / _feet (calstart2: a second request
\* for it, with its own local axis2); cal: the _calibration_loop
\* task; calstop: async_stop_calibration and the Calibration Stop button.
\* task: self._calibration_task is set; streamed: a directional command was
\* written on the current connection; ended: the inner loop was left by the
\* stop event; stops: stop frames written on the current connection after the
\* inner loop; stop_tries: stop writes and _send_command(CMD_STOP) calls made
\* by the task; gaveup: the task returned because no BLE device was available.
\* run: time from _calibration_start_time to the stop request, in ms; over: time
\* async_stop_calibration has slept inside async_send_stop before it measures.
\* extra: _calibration_loop tasks created while the task followed by pc["cal"]
\* was still running (the field then refers to the new task; its steps are not
\* followed).
COff == [axis |-> "head", task |-> FALSE, stop_event |-> FALSE, was |-> "none",
         streamed |-> FALSE, ended |-> FALSE, stops |-> 0, stop_tries |-> 0,
         gaveup |-> FALSE, cancelled |-> FALSE, todo |-> {}, cur |-> "head",
         run |-> 0, over |-> 0, axis2 |-> "head", extra |-> 0]

ModeOf(a) == IF a = "head" THEN 1 ELSE 2

\* a _calibration_loop task has been created and has not finished
CalTaskRunning == pc["cal"] \notin {"idle", "done"}

\* if self._calibration_task and not self._calibration_task.done(): return False;
\* await self.async_send_stop()
CS_Start(a) ==
  /\ pc["calstart"] = "idle"
  /\ touched' = [touched EXCEPT !["calstart"] = FALSE]
  /\ IF c.task /\ pc["cal"] # "done"
       THEN /\ pc' = [pc EXCEPT !["calstart"] = "done"]
            /\ UNCHANGED <<ss, c>>
       ELSE /\ pc' = [pc EXCEPT !["calstart"] = "prestop"]
            /\ ss' = [ss EXCEPT !["calstart"] = SendStopStart]
            /\ c' = [c EXCEPT !.axis = a]
  /\ UNCHANGED <<envVars, calVars, extVars, flagVars, authVars, position, m, h, pl,
                 client, cmdClient, faults, sc, b>>

\* async_send_stop() has returned; await asyncio.sleep(1.0)
CS_AfterStop ==
  /\ pc["calstart"] = "prestop"
  /\ ss["calstart"].pc = "ret"
  /\ ss' = [ss EXCEPT !["calstart"] = SSOff]
  /\ pc' = [pc EXCEPT !["calstart"] = "sleep"]
  /\ UNCHANGED <<envVars, calVars, extVars, flagVars, authVars, localVars, position, touched,
                 client, cmdClient, faults, sc, b>>

\* new stop event; _calibration_mode, _calibration_active = True; position 0;
\* create the _calibration_loop task
CS_Launch ==
  /\ pc["calstart"] = "sleep"
  /\ calibration_mode' = ModeOf(c.axis)
  /\ calibration_active' = TRUE
  /\ position' = [position EXCEPT ![c.axis] = ClampPosition(0)]
  /\ c' = [c EXCEPT !.task = TRUE, !.stop_event = FALSE,
                    !.extra = IF CalTaskRunning THEN @ + 1 ELSE @]
  /\ pc' = [pc EXCEPT !["calstart"] = "done",
                      !["cal"] = IF CalTaskRunning THEN @ ELSE "top"]
  /\ UNCHANGED <<envVars, calVars, extVars, authVars, touched, m, h, pl,
                 movement_active, calibration_stopping, last_end_set,
                 client, cmdClient, faults, sc, ss, b>>

\* a second request: the same three steps with their own local state
CS2_Start(a) ==
  /\ pc["calstart2"] = "idle"
  /\ touched' = [touched EXCEPT !["calstart2"] = FALSE]
  /\ IF c.task /\ pc["cal"] # "done"
       THEN /\ pc' = [pc EXCEPT !["calstart2"] = "done"]
            /\ UNCHANGED <<ss, c>>
       ELSE /\ pc' = [pc EXCEPT !["calstart2"] = "prestop"]
            /\ ss' = [ss EXCEPT !["calstart2"] = SendStopStart]
            /\ c' = [c EXCEPT !.axis2 = a]
  /\ UNCHANGED <<envVars, calVars, extVars, flagVars, authVars, position, m, h, pl,
                 client, cmdClient, faults, sc, b>>

CS2_AfterStop ==
  /\ pc["calstart2"] = "prestop"
  /\ ss["calstart2"].pc = "ret"
  /\ ss' = [ss EXCEPT !["calstart2"] = SSOff]
  /\ pc' = [pc EXCEPT !["calstart2"] = "sleep"]
  /\ UNCHANGED <<envVars, calVars, extVars, flagVars, authVars, localVars, position, touched,
                 client, cmdClient, faults, sc, b>>

CS2_Launch ==
  /\ pc["calstart2"] = "sleep"
  /\ calibration_mode' = ModeOf(c.axis2)
  /\ calibration_active' = TRUE
  /\ position' = [position EXCEPT ![c.axis2] = ClampPosition(0)]
  /\ c' = [c EXCEPT !.task = TRUE, !.stop_event = FALSE,
                    !.extra = IF CalTaskRunning THEN @ + 1 ELSE @]
  /\ pc' = [pc EXCEPT !["calstart2"] = "done",
                      !["cal"] = IF CalTaskRunning THEN @ ELSE "top"]
  /\ UNCHANGED <<envVars, calVars, extVars, authVars, touched, m, h, pl,
                 movement_active, calibration_stopping, last_end_set,
                 client, cmdClient, faults, sc, ss, b>>

\* _on_calibration_task_done: unless calibration is inactive or being stopped,
\* clear _calibration_active and _calibration_mode
TaskDoneActive == IF ~calibration_active \/ calibration_stopping
                    THEN calibration_active ELSE FALSE
TaskDoneMode == IF ~calibration_active \/ calibration_stopping
                  THEN calibration_mode ELSE 0

\* entering "except Exception": await self._send_command(CMD_STOP)
CalRaise(r) == [r EXCEPT !.stop_tries = @ + 1]

\* top of "while not stop_event.is_set()": device lookup, then
\* client = await establish_connection(...); after the loop _send_command(CMD_STOP)
C_Top ==
  /\ pc["cal"] = "top"
  /\ IF c.stop_event
       THEN /\ pc' = [pc EXCEPT !["cal"] = "final_stop"]
            /\ sc' = [sc EXCEPT !["cal"] = SendCommandStart]
            /\ c' = [c EXCEPT !.stop_tries = @ + 1]
            /\ UNCHANGED <<client, faults, touched, calibration_active, calibration_mode>>
       ELSE IF ~BleDeviceAvailable
         THEN IF device_address # NoAddr
                THEN /\ pc' = [pc EXCEPT !["cal"] = "waitdev"]
                     /\ UNCHANGED <<client, faults, touched, sc, c,
                                    calibration_active, calibration_mode>>
                ELSE /\ pc' = [pc EXCEPT !["cal"] = "done"]
                     /\ c' = [c EXCEPT !.gaveup = TRUE]
                     /\ calibration_active' = TaskDoneActive
                     /\ calibration_mode' = TaskDoneMode
                     /\ UNCHANGED <<client, faults, touched, sc>>
         ELSE \E o \in Outcomes :
                /\ faults' = Spend(o)
                /\ touched' = [touched EXCEPT !["cal"] = TRUE]
                /\ UNCHANGED <<calibration_active, calibration_mode>>
                /\ IF o = "ok"
                     THEN /\ client' = [client EXCEPT !["cal"] = TRUE]
                          /\ pc' = [pc EXCEPT !["cal"] = "pre"]
                          /\ c' = [c EXCEPT !.streamed = FALSE, !.ended = FALSE, !.stops = 0]
                          /\ sc' = sc
                     ELSE /\ client' = client
                          /\ pc' = [pc EXCEPT !["cal"] = "exc_wait"]
                          /\ c' = CalRaise(c)
                          /\ sc' = [sc EXCEPT !["cal"] = SendCommandStart]
  /\ UNCHANGED <<envVars, calVars, extVars, authVars, position, m, h, pl,
                 movement_active, calibration_stopping, last_end_set,
                 cmdClient, ss, b>>

\* _wait_for_ble_device(max_sec=15.0): the device shows up, or the wait runs
\* out and the task returns ("BLE device not available, stopping")
C_WaitDev ==
  /\ pc["cal"] = "waitdev"
  /\ IF BleDeviceAvailable
       THEN /\ pc' = [pc EXCEPT !["cal"] = "top"]
            /\ UNCHANGED <<c, calibration_active, calibration_mode>>
       ELSE /\ pc' = [pc EXCEPT !["cal"] = "done"]
            /\ c' = [c EXCEPT !.gaveup = TRUE]
            /\ calibration_active' = TaskDoneActive
            /\ calibration_mode' = TaskDoneMode
  /\ UNCHANGED <<envVars, calVars, extVars, authVars, position, touched, m, h, pl,
                 movement_active, calibration_stopping, last_end_set,
                 client, cmdClient, faults, sc, ss, b>>

\* sleep 2.5; write auth; sleep 0.05; write stop; sleep 0.1; write stop; sleep 0.1
C_Pre ==
  /\ pc["cal"] = "pre"
  /\ \E o \in Outcomes :
       /\ faults' = Spend(o)
       /\ IF o = "ok"
            THEN /\ pc' = [pc EXCEPT !["cal"] = "stream"]
                 /\ UNCHANGED <<c, sc>>
            ELSE /\ pc' = [pc EXCEPT !["cal"] = "exc_wait"]
                 /\ c' = CalRaise(c)
                 /\ sc' = [sc EXCEPT !["cal"] = SendCommandStart]
  /\ UNCHANGED <<envVars, calVars, extVars, flagVars, authVars, position, touched, m, h, pl,
                 client, cmdClient, ss, b>>

\* inner "while not stop_event.is_set()": write command; sleep 0.34
C_Stream ==
  /\ pc["cal"] = "stream"
  /\ ~c.stop_event
  /\ \E o \in Outcomes :
       /\ faults' = Spend(o)
       /\ IF o = "ok"
            THEN /\ c' = [c EXCEPT !.streamed = TRUE]
                 /\ UNCHANGED <<pc, sc>>
            ELSE /\ pc' = [pc EXCEPT !["cal"] = "exc_wait"]
                 /\ c' = CalRaise(c)
                 /\ sc' = [sc EXCEPT !["cal"] = SendCommandStart]
  /\ UNCHANGED <<envVars, calVars, extVars, flagVars, authVars, position, touched, m, h, pl,
                 client, cmdClient, ss, b>>

\* the inner loop is left: write stop; sleep 0.1; write stop
C_Stop ==
  /\ pc["cal"] = "stream"
  /\ c.stop_event
  /\ \E o \in Outcomes :
       /\ faults' = Spend(o)
       /\ IF o = "ok"
            THEN /\ pc' = [pc EXCEPT !["cal"] = "finally"]
                 /\ c' = [c EXCEPT !.ended = TRUE, !.stops = 2, !.stop_tries = @ + 2]
                 /\ sc' = sc
            ELSE \E k \in 1..2 :
                   /\ pc' = [pc EXCEPT !["cal"] = "exc_wait"]
                   /\ c' = CalRaise([c EXCEPT !.ended = TRUE, !.stops = k - 1,
                                              !.stop_tries = @ + k])
                   /\ sc' = [sc EXCEPT !["cal"] = SendCommandStart]
  /\ UNCHANGED <<envVars, calVars, extVars, flagVars, authVars, position, touched, m, h, pl,
                 client, cmdClient, ss, b>>

\* the handler's _send_command(CMD_STOP) has returned; break or backoff sleep
C_HandlerDone ==
  /\ pc["cal"] = "exc_wait"
  /\ sc["cal"].pc = "ret"
  /\ sc' = [sc EXCEPT !["cal"] = SCOff]
  /\ pc' = [pc EXCEPT !["cal"] = "finally"]
  /\ UNCHANGED <<envVars, calVars, extVars, flagVars, authVars, localVars, position, touched,
                 client, cmdClient, faults, ss, b>>

\* finally: await _safe_disconnect(client); back to the top of the outer loop
C_Finally ==
  /\ pc["cal"] = "finally"
  /\ client' = [client EXCEPT !["cal"] = FALSE]
  /\ pc' = [pc EXCEPT !["cal"] = "top"]
  /\ UNCHANGED <<envVars, calVars, extVars, flagVars, authVars, localVars, position, touched,
                 cmdClient, faults, sc, ss, b>>

\* the trailing _send_command(CMD_STOP) has returned: the task is done
C_Final ==
  /\ pc["cal"] = "final_stop"
  /\ sc["cal"].pc = "ret"
  /\ sc' = [sc EXCEPT !["cal"] = SCOff]
  /\ pc' = [pc EXCEPT !["cal"] = "done"]
  /\ calibration_active' = TaskDoneActive
  /\ calibration_mode' = TaskDoneMode
  /\ UNCHANGED <<envVars, calVars, extVars, authVars, localVars, position, touched,
                 movement_active, calibration_stopping, last_end_set,
                 client, cmdClient, faults, ss, b>>

\* except CancelledError: if client: write stop once (errors ignored); raise;
\* finally: _safe_disconnect(client); the task ends cancelled
C_CancelStop ==
  /\ pc["cal"] = "cancel_stop"
  /\ \E o \in Outcomes :
       /\ faults' = Spend(o)
       /\ c' = [c EXCEPT !.stops = IF o = "ok" THEN @ + 1 ELSE @, !.stop_tries = @ + 1]
  /\ pc' = [pc EXCEPT !["cal"] = "cancel_fin"]
  /\ UNCHANGED <<envVars, calVars, extVars, flagVars, authVars, position, touched, m, h, pl,
                 client, cmdClient, sc, ss, b>>

C_CancelFin ==
  /\ pc["cal"] = "cancel_fin"
  /\ client' = [client EXCEPT !["cal"] = FALSE]
  /\ pc' = [pc EXCEPT !["cal"] = "done"]
  /\ calibration_active' = TaskDoneActive
  /\ calibration_mode' = TaskDoneMode
  /\ UNCHANGED <<envVars, calVars, extVars, authVars, localVars, position, touched,
                 movement_active, calibration_stopping, last_end_set,
                 cmdClient, faults, sc, ss, b>>

\* elapsed calibration time read by async_stop_calibration, in ms
CalMeasured == {400, 1200}

ClampCalibrationNone(d) == d

\* max(1000, min(120000, duration_ms))
ClampCalibration(d) == Max(MIN_CALIBRATION_MS, Min(MAX_CALIBRATION_MS, d))

\* async_stop_calibration: remember the mode, _calibration_stopping = True,
\* _last_movement_end_time = now, set the stop event, await wait_for(task, 5.0);
\* without a task go on to async_send_stop()
ST_Start ==
  /\ pc["calstop"] = "idle"
  /\ touched' = [touched EXCEPT !["calstop"] = FALSE]
  /\ calibration_stopping' = TRUE
  /\ last_end_set' = TRUE
  /\ c' = [c EXCEPT !.was = IF calibration_mode = 1 THEN "head"
                            ELSE IF calibration_mode = 2 THEN "feet" ELSE "none",
                    !.stop_event = c.task \/ @]
  /\ IF c.task
       THEN /\ pc' = [pc EXCEPT !["calstop"] = "wait"]
            /\ ss' = ss
       ELSE /\ pc' = [pc EXCEPT !["calstop"] = "stop_send"]
            /\ ss' = [ss EXCEPT !["calstop"] = SendStopStart]
  /\ UNCHANGED <<envVars, calVars, extVars, authVars, position, m, h, pl,
                 movement_active, calibration_active, calibration_mode,
                 client, cmdClient, faults, sc, b>>

\* the task finished (within the timeout or after the cancel):
\* self._calibration_task = None; await self.async_send_stop()
ST_Joined ==
  /\ pc["calstop"] \in {"wait", "cancelling"}
  /\ pc["cal"] = "done"
  /\ c' = [c EXCEPT !.task = FALSE]
  /\ pc' = [pc EXCEPT !["calstop"] = "stop_send"]
  /\ ss' = [ss EXCEPT !["calstop"] = SendStopStart]
  /\ UNCHANGED <<envVars, calVars, extVars, flagVars, authVars, position, touched, m, h, pl,
                 client, cmdClient, faults, sc, b>>

\* the 5 s timeout expires: the task is cancelled at the await it is suspended in.
\*  - waiting for the device (outside the try): the task ends
\*  - in the try body: "except CancelledError" writes stop once if connected
\*  - inside a handler's or the trailing _send_command: it unwinds
\*  - in the finally, awaiting _safe_disconnect(client): the task ends at once;
\*    whether the link was already closed is not determined
ST_Timeout ==
  /\ pc["calstop"] = "wait"
  /\ pc["cal"] \in {"waitdev", "pre", "stream", "exc_wait", "final_stop"}
       \/ (pc["cal"] = "finally" /\ client["cal"])
  /\ IF pc["cal"] \in {"pre", "stream"}
       THEN /\ pc' = [pc EXCEPT !["calstop"] = "cancelling", !["cal"] = "cancel_stop"]
            /\ c' = [c EXCEPT !.cancelled = TRUE]
            /\ UNCHANGED <<client, cmdClient, sc, calibration_active, calibration_mode>>
       ELSE IF pc["cal"] = "exc_wait"
         THEN /\ pc' = [pc EXCEPT !["calstop"] = "cancelling", !["cal"] = "cancel_fin"]
              /\ c' = [c EXCEPT !.cancelled = TRUE]
              /\ sc' = [sc EXCEPT !["cal"] = SCOff]
              /\ cmdClient' = [cmdClient EXCEPT !["cal"] = FALSE]
              /\ UNCHANGED <<client, calibration_active, calibration_mode>>
         ELSE /\ pc' = [pc EXCEPT !["calstop"] = "cancelling", !["cal"] = "done"]
              /\ c' = [c EXCEPT !.cancelled = TRUE]
              /\ sc' = [sc EXCEPT !["cal"] = SCOff]
              /\ cmdClient' = [cmdClient EXCEPT !["cal"] = FALSE]
              /\ \E closed \in BOOLEAN :
                   client' = [client EXCEPT !["cal"] = @ /\ ~closed]
              /\ calibration_active' = TaskDoneActive
              /\ calibration_mode' = TaskDoneMode
  /\ UNCHANGED <<envVars, calVars, extVars, authVars, position, touched, m, h, pl,
                 movement_active, calibration_stopping, last_end_set, faults, ss, b>>

\* the calibration has been running for t ms when the user asks for the stop
CalRuns(t) ==
  /\ c.task /\ calibration_active
  /\ pc["calstop"] = "idle"
  /\ c.run = 0
  /\ c' = [c EXCEPT !.run = t]
  /\ UNCHANGED <<envVars, calVars, extVars, flagVars, authVars, position, touched, m, h, pl,
                 client, cmdClient, faults, pc, sc, ss, b>>

\* async_send_stop() has returned; await asyncio.sleep(0.2)
ST_AfterStop ==
  /\ pc["calstop"] = "stop_send"
  /\ ss["calstop"].pc = "ret"
  /\ ss' = [ss EXCEPT !["calstop"] = SSOff]
  /\ c' = [c EXCEPT !.over = ss["calstop"].slept]
  /\ pc' = [pc EXCEPT !["calstop"] = "sleep"]
  /\ UNCHANGED <<envVars, calVars, extVars, flagVars, authVars, position, touched, m, h, pl,
                 client, cmdClient, faults, sc, b>>

\* int((loop.time() - _calibration_start_time) * 1000) at the measurement: the
\* run time, the 5 s of a wait_for that timed out, the sleeps of
\* async_send_stop and the 0.2 s settle sleep (BLE calls and a task that ends
\* within the timeout take no time)
MeasuredMs ==
  c.run + (IF c.cancelled THEN CAL_STOP_TIMEOUT_MS ELSE 0) + c.over
        + CAL_STOP_SETTLE_MS

\* axes async_move_to_zero(head_only=was_head, feet_only=was_feet) will handle
MoveToZeroAxesAll(was, pos) ==
  {a \in Axes : was = a \/ pos[a] > ZERO_MIN_T}

\* async_move_to_zero: move_head = head_only or (not feet_only and head > 0.5)
MoveToZeroAxes(was, pos) ==
  {a \in Axes : \/ was = a
                \/ /\ was = "none"
                   /\ pos[a] > ZERO_MIN_T}

\* duration_ms = max(1000, min(120000, elapsed)); store it in the field of the
\* calibrated axis and set that axis to 100%; mode 0, _calibration_active False;
\* await self._stop_calibration_notification()
ST_Save(d) ==
  /\ pc["calstop"] = "sleep"
  /\ LET pos == IF c.was \in Axes
                  THEN [position EXCEPT ![c.was] = ClampPosition(POS_MAX_T)]
                  ELSE position
     IN /\ position' = pos
        /\ c' = [c EXCEPT !.todo = MoveToZeroAxes(c.was, pos), !.over = 0]
  /\ cal_field' = IF c.was \in Axes
                    THEN [cal_field EXCEPT ![c.was] = ClampCalibration(d)]
                    ELSE cal_field
  /\ calibration_mode' = 0
  /\ calibration_active' = FALSE
  /\ pc' = [pc EXCEPT !["calstop"] = "to_zero"]
  /\ UNCHANGED <<envVars, cal_opt, extVars, authVars, touched, m, h, pl,
                 movement_active, calibration_stopping, last_end_set,
                 client, cmdClient, faults, sc, ss, b>>

\* duration_ms = max(300, int((start / 100.0) * self._*_calibration_ms))
ZeroDurationMs(start, cal) == Max(MIN_DURATION_MS, (start * cal) \div 1000)

\* async_move_to_zero, next section (head first): above 0.5% run the bounded
\* movement down, otherwise set the position to 0 at once; with nothing left
\* the finally clears _calibration_stopping and the button stores the seconds
ST_MoveNext ==
  /\ pc["calstop"] = "to_zero"
  /\ IF c.todo = {}
       THEN /\ calibration_stopping' = FALSE
            /\ cal_opt' = IF c.was \in Axes
                            THEN [cal_opt EXCEPT ![c.was] = cal_field[c.was]]
                            ELSE cal_opt
            /\ pc' = [pc EXCEPT !["calstop"] = "done"]
            /\ UNCHANGED <<position, c, b, movement_active>>
       ELSE LET a == IF "head" \in c.todo THEN "head" ELSE "feet" IN
              /\ UNCHANGED <<calibration_stopping, cal_opt>>
              /\ IF position[a] > ZERO_MIN_T
                   THEN LET dur == ZeroDurationMs(position[a], cal_field[a]) IN
                          /\ b' = [b EXCEPT !["calstop"] = ForDurationStart(DownCmd(a), dur)]
                          /\ movement_active' = (ForDurationSetsActive(dur) \/ movement_active)
                          /\ c' = [c EXCEPT !.cur = a]
                          /\ pc' = [pc EXCEPT !["calstop"] = "moving"]
                          /\ position' = position
                   ELSE /\ position' = [position EXCEPT ![a] = ClampPosition(0)]
                        /\ c' = [c EXCEPT !.todo = @ \ {a}]
                        /\ UNCHANGED <<b, movement_active, pc>>
  /\ UNCHANGED <<envVars, cal_field, extVars, authVars, touched, m, h, pl,
                 calibration_active, calibration_mode, last_end_set,
                 client, cmdClient, faults, sc, ss>>

\* the bounded movement has returned (its result is not looked at):
\* set_*_position(0.0); sleep 0.5 before the other section
ST_MoveReturn ==
  /\ pc["calstop"] = "moving"
  /\ b["calstop"].pc = "ret"
  /\ b' = [b EXCEPT !["calstop"] = BOff]
  /\ position' = [position EXCEPT ![c.cur] = ClampPosition(0)]
  /\ c' = [c EXCEPT !.todo = @ \ {c.cur}]
  /\ pc' = [pc EXCEPT !["calstop"] = "to_zero"]
  /\ UNCHANGED <<envVars, calVars, extVars, flagVars, authVars, touched, m, h, pl,
                 client, cmdClient, faults, sc, ss>>

\* ------------------------------------------------- Stop All button / cover stop
\* OctoBedStopButton.async_press and async_stop_cover:
\* await coordinator.async_send_stop(); coordinator.set_movement_active(False)
SB_Press ==
  /\ pc["stopbtn"] = "idle"
  /\ touched' = [touched EXCEPT !["stopbtn"] = FALSE]
  /\ ss' = [ss EXCEPT !["stopbtn"] = SendStopStart]
  /\ pc' = [pc EXCEPT !["stopbtn"] = "sending"]
  /\ UNCHANGED <<envVars, calVars, extVars, flagVars, authVars, localVars, position,
                 client, cmdClient, faults, sc, b>>

SB_Done ==
  /\ pc["stopbtn"] = "sending"
  /\ ss["stopbtn"].pc = "ret"
  /\ ss' = [ss EXCEPT !["stopbtn"] = SSOff]
  /\ movement_active' = FALSE
  /\ pc' = [pc EXCEPT !["stopbtn"] = "done"]
  /\ UNCHANGED <<envVars, calVars, extVars, authVars, localVars, position, touched,
                 calibration_active, calibration_stopping, calibration_mode,
                 last_end_set, client, cmdClient, faults, sc, b>>

\* the stop button can be pressed again once its handler has returned
SB_Again ==
  /\ pc["stopbtn"] = "done"
  /\ pc' = [pc EXCEPT !["stopbtn"] = "idle"]
  /\ UNCHANGED <<envVars, calVars, extVars, flagVars, authVars, localVars, position, touched,
                 client, cmdClient, faults, sc, ss, b>>

\* ------------------------------------------------- poll cycle ("poll")
NoSnapshot == [taken |-> FALSE]

\* a snapshot whose "connected" looks at the authentication flag alone
DataFlagOnly ==
  [taken |-> TRUE,
   head_position |-> position["head"],
   feet_position |-> position["feet"],
   movement_active |-> movement_active,
   device_address |-> device_address,
   available |-> device_address # NoAddr,
   connected |-> authenticated,
   connection_status |->
     IF device_address = NoAddr THEN "searching"
     ELSE IF ~AddressPresent THEN "disconnected"
     ELSE IF ~authenticated THEN "pin_not_accepted"
     ELSE "connected",
   calibration_active |-> calibration_active]

\* _data(): the state snapshot handed to the entities
Data ==
  [taken |-> TRUE,
   head_position |-> position["head"],
   feet_position |-> position["feet"],
   movement_active |-> movement_active,
   device_address |-> device_address,
   available |-> device_address # NoAddr,
   connected |-> AddressPresent /\ authenticated,
   connection_status |->
     IF device_address = NoAddr THEN "searching"
     ELSE IF ~AddressPresent THEN "disconnected"
     ELSE IF ~authenticated THEN "pin_not_accepted"
     ELSE "connected",
   calibration_active |-> calibration_active]

\* a notification frame is a sequence of bytes (0..255), data[0] is frame[1]
\* accepted(s) / rejected(s) inside _parse_pin_response
PinAccepted(st) == st = PIN_RESPONSE_ACCEPTED
PinRejected(st) == st \in {PIN_RESPONSE_REJECTED, PIN_RESPONSE_REJECTED_ALT,
                           PIN_RESPONSE_REJECTED_1B, PIN_RESPONSE_NOT_SET}

\* one "if accepted(x): return True; if rejected(x): return False" pair
PinStatus(st) == IF PinAccepted(st) THEN "true"
                 ELSE IF PinRejected(st) THEN "false" ELSE "none"

\* _parse_pin_response(data): "true", "false" or "none" for True, False, None:
\* the byte at index 5 when the frame has one, and the last byte when that
\* byte does not decide
ParsePinResponse(data) ==
  IF Len(data) < 2 THEN "none"
  ELSE IF data[2] # 33 THEN "none"
  ELSE IF data[1] \notin {64, 70} THEN "none"
  ELSE LET at_index == IF Len(data) > PIN_RESPONSE_STATUS_BYTE_INDEX
                         THEN PinStatus(data[PIN_RESPONSE_STATUS_BYTE_INDEX + 1])
                         ELSE "none"
       IN IF at_index # "none" THEN at_index ELSE PinStatus(data[Len(data)])

\* "PIN_RESPONSE_NOT_SET in data": some byte of the frame is 0x1F
HasNotSetByte(data) == \E i \in 1..Len(data) : data[i] = PIN_RESPONSE_NOT_SET

\* the notification the "for data in received" loop returns on, 0 if none
FirstDeciding(received) ==
  LET idx == {i \in 1..Len(received) :
                HasNotSetByte(received[i]) \/ ParsePinResponse(received[i]) # "none"}
  IN IF idx = {} THEN 0 ELSE CHOOSE i \in idx : \A j \in idx : i <= j

\* the outcome of _check_pin_accepted once the keep-alive frame is written:
\* decided by the first deciding notification in received, otherwise by
\* whether the link is still up after the extra 2.0 s
CheckAnswer(received, stays) ==
  LET i == FirstDeciding(received) IN
    IF i = 0 THEN (IF stays THEN "silent" ELSE "dropped")
    ELSE IF HasNotSetByte(received[i]) THEN "not_set"
    ELSE IF ParsePinResponse(received[i]) = "false" THEN "rejected"
    ELSE "accepted"

\* returned: what the cycle returned; pin: the verdict of _check_pin_accepted;
\* link: what client.is_connected gave after the extra 2.0 s, "unused" if it
\* was not asked;
\* skipped: the cycle returned at the busy test; received: the notifications in
\* the list when the wait ends; verdicts: what _on_notification's call of
\* _parse_pin_response gave for each; window: every notification the bed sent
\* within 2.5 s of the keep-alive frame; wrote: the keep-alive frame was written
PLOff == [returned |-> NoSnapshot, pin |-> FALSE, skipped |-> FALSE,
          received |-> <<>>, verdicts |-> <<>>, window |-> <<>>, wrote |-> FALSE,
          link |-> "unused"]

\* if self._movement_active or self._calibration_active or self._calibration_stopping
PollSkipsUnlessStopping == movement_active \/ calibration_active
PollSkips == movement_active \/ calibration_active \/ calibration_stopping

\* _async_update_data up to its first await: skip while busy; skip within 15 s
\* of the last movement end; with the address present start the PIN check;
\* otherwise authenticated = False and _async_ensure_address (discovery by name)
P_Start ==
  /\ pc["poll"] = "idle"
  /\ touched' = [touched EXCEPT !["poll"] = FALSE]
  /\ UNCHANGED <<advertised, flips, calVars, extVars, flagVars, device_has_no_pin, position,
                 m, h, c, client, cmdClient, faults, sc, ss, b>>
  /\ \E cooling \in {FALSE, last_end_set} :
       IF PollSkips \/ cooling
         THEN /\ pl' = [pl EXCEPT !.returned = Data, !.skipped = PollSkips]
              /\ pc' = [pc EXCEPT !["poll"] = "returned"]
              /\ UNCHANGED <<authenticated, field_address, entry_address>>
         ELSE IF AddressPresent
           THEN /\ pc' = [pc EXCEPT !["poll"] = "pin_connect"]
                /\ UNCHANGED <<pl, authenticated, field_address, entry_address>>
           ELSE /\ authenticated' = FALSE
                /\ IF device_address = NoAddr /\ advertised
                     THEN field_address' = "AA" /\ entry_address' = "AA"
                     ELSE UNCHANGED <<field_address, entry_address>>
                /\ pl' = [pl EXCEPT !.returned = Data']
                /\ pc' = [pc EXCEPT !["poll"] = "returned"]

\* _check_pin_accepted: client = await establish_connection(...)
P_PinConnect ==
  /\ pc["poll"] = "pin_connect"
  /\ \E o \in Outcomes :
       /\ faults' = Spend(o)
       /\ touched' = [touched EXCEPT !["poll"] = TRUE]
       /\ IF o = "ok"
            THEN /\ client' = [client EXCEPT !["poll"] = TRUE]
                 /\ pc' = [pc EXCEPT !["poll"] = "pin_io"]
                 /\ pl' = pl
            ELSE /\ client' = client
                 /\ pc' = [pc EXCEPT !["poll"] = "pin_done"]
                 /\ pl' = [pl EXCEPT !.pin = FALSE]
  /\ UNCHANGED <<envVars, calVars, extVars, flagVars, authVars, position, m, h, c,
                 cmdClient, sc, ss, b>>

\* answers of the bed to the keep-alive frame
PinAnswers == {"accepted", "rejected", "not_set", "silent", "dropped"}

\* _on_notification(handle, data): received.append(raw); parse it;
\* notif_event.set()
P_Notify(f) ==
  /\ pc["poll"] = "pin_io"
  /\ pl.window = pl.received
  /\ pl' = [pl EXCEPT !.received = Append(@, f),
                      !.verdicts = Append(@, ParsePinResponse(f)),
                      !.window = Append(@, f)]
  /\ UNCHANGED <<envVars, calVars, extVars, flagVars, authVars, position, touched, m, h, c,
                 client, cmdClient, faults, pc, sc, ss, b>>

\* a notification that arrives within the 2.5 s but after the first one has
\* ended wait_for(notif_event.wait(), timeout=2.5) and the loop has run
P_Missed(f) ==
  /\ pc["poll"] = "pin_io"
  /\ Len(pl.received) >= 1
  /\ pl' = [pl EXCEPT !.window = Append(@, f)]
  /\ UNCHANGED <<envVars, calVars, extVars, flagVars, authVars, position, touched, m, h, c,
                 client, cmdClient, faults, pc, sc, ss, b>>

\* sleep 1.0; start notify; write the keep-alive frame; wait for a notification;
\* 0x1F -> no PIN set (app init, True); 0x18 -> False; 0x1A -> True;
\* no answer -> sleep 2.0 and True iff still connected; a write error -> False
P_PinIO(ans) ==
  /\ pc["poll"] = "pin_io"
  /\ \E o \in Outcomes :
       /\ faults' = Spend(o)
       /\ IF o # "ok"
            THEN /\ pl' = [pl EXCEPT !.pin = FALSE]
                 /\ device_has_no_pin' = device_has_no_pin
            ELSE /\ pl' = [pl EXCEPT !.pin = (ans \in {"accepted", "not_set", "silent"}),
                                     !.wrote = TRUE,
                                     !.link = IF ans = "silent" THEN "up"
                                              ELSE IF ans = "dropped" THEN "down"
                                              ELSE "unused"]
                 /\ device_has_no_pin' =
                      IF ans = "not_set" THEN TRUE
                      ELSE IF ans \in {"accepted", "rejected"} THEN FALSE
                      ELSE device_has_no_pin
  /\ pc' = [pc EXCEPT !["poll"] = "pin_done"]
  /\ UNCHANGED <<envVars, calVars, extVars, flagVars, authenticated, position, touched, m, h, c,
                 client, cmdClient, sc, ss, b>>

\* the check decides on the notifications it has received
P_PinFrames == \E stays \in BOOLEAN : P_PinIO(CheckAnswer(pl.received, stays))

\* finally: _safe_disconnect(client); self._authenticated = the result of the check; return _data()
P_PinDone ==
  /\ pc["poll"] = "pin_done"
  /\ client' = [client EXCEPT !["poll"] = FALSE]
  /\ authenticated' = pl.pin
  /\ touched' = [touched EXCEPT !["poll"] = FALSE]
  /\ UNCHANGED <<envVars, calVars, extVars, flagVars, device_has_no_pin, position,
                 m, h, c, cmdClient, faults, sc, ss, b>>
  /\ pl' = [pl EXCEPT !.returned = Data', !.pin = FALSE, !.link = "unused"]
  /\ pc' = [pc EXCEPT !["poll"] = "returned"]

\* the update coordinator publishes the result and waits for the next interval
P_Publish ==
  /\ pc["poll"] = "returned"
  /\ pl' = PLOff
  /\ pc' = [pc EXCEPT !["poll"] = "idle"]
  /\ UNCHANGED <<envVars, calVars, extVars, flagVars, authVars, position, touched, m, h, c,
                 client, cmdClient, faults, sc, ss, b>>

\* ------------------------------------------- _async_ensure_address (reg)
\* names are sequences of characters
UpperChar(ch) == IF ch = "r" THEN "R" ELSE IF ch = "c" THEN "C" ELSE ch

\* str.strip() for blanks
RECURSIVE Strip(_)
Strip(name) ==
  IF name = <<>> THEN name
  ELSE IF Head(name) = " " THEN Strip(Tail(name))
  ELSE IF name[Len(name)] = " " THEN Strip(SubSeq(name, 1, Len(name) - 1))
  ELSE name

\* name.strip().upper()
StripUpper(name) == [i \in 1..Len(Strip(name)) |-> UpperChar(Strip(name)[i])]

\* info.name and self._device_name and info.name.strip().upper() == ....upper()
NameMatches(info_name, dev_name) ==
  /\ info_name # <<>>
  /\ dev_name # <<>>
  /\ StripUpper(info_name) = StripUpper(dev_name)

\* one "for info in infos" loop from index i: the first advert with a new
\* address and a matching name ends it
RECURSIVE ScanInfos(_, _, _, _)
ScanInfos(infos, i, seen, dev_name) ==
  IF i > Len(infos) THEN [found |-> FALSE, address |-> NoAddr, seen |-> seen]
  ELSE IF infos[i].address = NoAddr \/ infos[i].address \in seen
    THEN ScanInfos(infos, i + 1, seen, dev_name)
  ELSE IF NameMatches(infos[i].name, dev_name)
    THEN [found |-> TRUE, address |-> infos[i].address,
          seen |-> seen \cup {infos[i].address}]
  ELSE ScanInfos(infos, i + 1, seen \cup {infos[i].address}, dev_name)

\* async_discovered_service_info(connectable=True): the connectable adverts
IsConnectable(info) == info.connectable
InfosConn == SelectSeq(reg.infos, IsConnectable)
\* async_discovered_service_info(connectable=False): all adverts
InfosAny == reg.infos

\* the address the two loops adopt, NoAddr when neither finds one
\* (non-connectable adverts first)
DiscoverAnyFirst ==
  LET first == ScanInfos(InfosAny, 1, {}, reg.device_name) IN
    IF first.found THEN first.address
    ELSE ScanInfos(InfosConn, 1, first.seen, reg.device_name).address

\* the address the two loops adopt, NoAddr when neither finds one
Discover ==
  LET first == ScanInfos(InfosConn, 1, {}, reg.device_name) IN
    IF first.found THEN first.address
    ELSE ScanInfos(InfosAny, 1, first.seen, reg.device_name).address

\* _address_present(addr) on the adverts
Observed(addr) == \E i \in 1..Len(reg.infos) : reg.infos[i].address = addr

\* f"Octo Bed ({address})" and f"Octo Bed ({nickname})"
AddressTitle(addr) == <<"Octo Bed", addr>>
NicknameTitle(nick) == <<"Octo Bed", nick>>
\* not title or title == "Octo Bed" or "()" in title.replace(" ", "")
PlaceholderTitle(title) == title \in {<<>>, <<"Octo Bed">>, <<"Octo Bed", "">>}

\* the title _persist_device_address passes to async_update_entry
PersistedTitle(address) ==
  IF reg.nickname # "" THEN NicknameTitle(reg.nickname)
  ELSE IF PlaceholderTitle(reg.title) THEN AddressTitle(address)
  ELSE reg.title

\* a discovery that scans whatever the configured address
EnsureScansAlways == TRUE

\* "if addr: if self._address_present(addr): return": the scan is reached
\* without an address or with one that is not observed
EnsureScans == device_address = NoAddr \/ ~Observed(device_address)

\* _async_ensure_address(): return if the address is observed; otherwise scan
\* and, on a match, set _device_address and persist the address
\* (_persist_device_address returns early when the entry already holds it)
R_Ensure ==
  /\ reg.calls < MaxEnsureCalls
  /\ LET scans == EnsureScans
         adopted == IF scans THEN Discover ELSE NoAddr
     IN /\ IF adopted # NoAddr
             THEN /\ field_address' = adopted
                  /\ entry_address' = adopted
                  /\ reg' = [reg EXCEPT !.calls = @ + 1, !.scanned = scans,
                                        !.adopted = adopted,
                                        !.writes = IF entry_address = adopted THEN @ ELSE @ + 1,
                                        !.title = IF entry_address = adopted THEN @
                                                  ELSE PersistedTitle(adopted)]
                  /\ advertised' = TRUE
             ELSE /\ reg' = [reg EXCEPT !.calls = @ + 1, !.scanned = scans,
                                        !.adopted = NoAddr]
                  /\ UNCHANGED <<field_address, entry_address, advertised>>
  /\ UNCHANGED <<flips, calVars, extButReg, flagVars, authVars, localVars, position,
                 touched, client, cmdClient, faults, pc, sc, ss, b>>

\* ------------------------------------------------ validate_pin (vp)
\* PIN strings are sequences of characters
DigitChars == <<"0", "1", "2", "3", "4", "5", "6", "7", "8", "9">>
IsDigit(ch) == \E i \in 1..10 : DigitChars[i] = ch
\* ord(c) - ord("0")
DigitValue(ch) == (CHOOSE i \in 1..10 : DigitChars[i] = ch) - 1

\* s[:n]
Take(str, n) == SubSeq(str, 1, Min(n, Len(str)))

\* s.ljust(4, "0"): "0" appended up to length 4
RECURSIVE Ljust4(_)
Ljust4(str) == IF Len(str) >= 4 THEN str ELSE Ljust4(Append(str, "0"))

\* _normalize_pin_str(pin): (pin or "0000").strip(), the digits of it, the
\* first 4 of them, ljust(4, "0")
NormalizePinStr(pin) ==
  LET raw == Strip(IF pin = <<>> THEN <<"0", "0", "0", "0">> ELSE pin)
      digits_only == Take(SelectSeq(raw, IsDigit), 4)
  IN Ljust4(digits_only)

\* _pin_to_digits(pin): one byte per character of the normalized PIN
PinToDigits(pin) ==
  LET str == NormalizePinStr(pin)
  IN [i \in 1..Len(str) |-> IF IsDigit(str[i]) THEN DigitValue(str[i]) ELSE 0]

\* KEEP_ALIVE_PREFIX 40 20 43 00 04 00, KEEP_ALIVE_SUFFIX 40,
\* SET_PIN_PREFIX 40 20 3C 04 00 04 02 01
KEEP_ALIVE_PREFIX == <<64, 32, 67, 0, 4, 0>>
KEEP_ALIVE_SUFFIX == <<64>>
SET_PIN_PREFIX == <<64, 32, 60, 4, 0, 4, 2, 1>>

\* _make_keep_alive(pin) and _make_set_pin(pin) as bytes
KeepAliveBytes(pin) == KEEP_ALIVE_PREFIX \o PinToDigits(pin) \o KEEP_ALIVE_SUFFIX
SetPinBytes(pin) == SET_PIN_PREFIX \o PinToDigits(pin) \o KEEP_ALIVE_SUFFIX

\* the PIN of the entry in the specifications that do not draw one
DefaultPin == <<"1", "2", "3", "4">>

\* pc: position; received: the notification list; wrote: the keep-alive frame
\* was written; stayed: client.is_connected at the end; result: the string
\* returned; input: the pin argument; pin: the normalized PIN; frame: the
\* keep-alive frame written
VOff == [pc |-> "idle", received |-> <<>>, wrote |-> FALSE, stayed |-> FALSE,
         result |-> "none", input |-> <<>>, pin |-> <<>>, frame |-> <<>>]

\* the "for data in received" loop after the 3.5 s wait: "fallback" when it
\* returns nothing
ValidateMain(received) ==
  LET i == FirstDeciding(received) IN
    IF i = 0 THEN "fallback"
    ELSE IF HasNotSetByte(received[i]) THEN "ok"
    ELSE IF ParsePinResponse(received[i]) = "false" THEN "wrong_pin"
    ELSE "ok"

\* the first notification of the list that _parse_pin_response decides, 0 if none
FirstParsed(received) ==
  LET idx == {i \in 1..Len(received) : ParsePinResponse(received[i]) # "none"}
  IN IF idx = {} THEN 0 ELSE CHOOSE i \in idx : \A j \in idx : i <= j

\* dropped link reported as a wrong PIN
ValidateFallbackWrongPin(received, stays) ==
  LET i == FirstParsed(received) IN
    IF i # 0 THEN (IF ParsePinResponse(received[i]) = "false" THEN "wrong_pin" ELSE "ok")
    ELSE IF stays THEN "ok" ELSE "wrong_pin"

\* after the loop: sleep 1.5; parse the list again; sleep 1.0;
\* not connected -> "connection_failed", else "ok"
ValidateFallback(received, stays) ==
  LET i == FirstParsed(received) IN
    IF i # 0 THEN (IF ParsePinResponse(received[i]) = "false" THEN "wrong_pin" ELSE "ok")
    ELSE IF stays THEN "ok" ELSE "connection_failed"

\* validate_pin(hass, address, name, pin): pin = _normalize_pin_str(pin);
\* empty address -> "connection_failed"; _wait_for_ble_device gives nothing ->
\* "device_not_found"
V_Start(addr, pin) ==
  /\ vp.pc = "idle"
  /\ LET on == [VOff EXCEPT !.input = pin, !.pin = NormalizePinStr(pin)] IN
       vp' = IF addr = NoAddr THEN [on EXCEPT !.pc = "done", !.result = "connection_failed"]
             ELSE IF ~advertised THEN [on EXCEPT !.pc = "done", !.result = "device_not_found"]
             ELSE [on EXCEPT !.pc = "connect"]
  /\ UNCHANGED <<envVars, calVars, extButVp, flagVars, authVars, localVars, position, touched,
                 client, cmdClient, faults, pc, sc, ss, b>>

\* client = await establish_connection(...); an exception returns
\* "connection_failed"
V_Connect ==
  /\ vp.pc = "connect"
  /\ \E o \in Outcomes :
       /\ faults' = Spend(o)
       /\ vp' = IF o = "ok" THEN [vp EXCEPT !.pc = "io"]
               ELSE [vp EXCEPT !.pc = "done", !.result = "connection_failed"]
  /\ UNCHANGED <<envVars, calVars, extButVp, flagVars, authVars, localVars, position, touched,
                 client, cmdClient, pc, sc, ss, b>>

\* _on_notification: received.append(bytes(data)); notif_event.set(); it is
\* registered until _stop_notify_flexible has returned
V_Notify(f) ==
  /\ vp.pc \in {"io", "fallback"}
  /\ vp' = [vp EXCEPT !.received = Append(@, f)]
  /\ UNCHANGED <<envVars, calVars, extButVp, flagVars, authVars, localVars, position, touched,
                 client, cmdClient, faults, pc, sc, ss, b>>

\* write the keep-alive frame (both writes failing returns "connection_failed");
\* wait up to 3.5 s for a notification; run the loop over received
V_Main ==
  /\ vp.pc = "io"
  /\ \E o \in Outcomes :
       /\ faults' = Spend(o)
       /\ vp' = IF o # "ok" THEN [vp EXCEPT !.pc = "done", !.result = "connection_failed"]
               ELSE IF ValidateMain(vp.received) = "fallback"
                 THEN [vp EXCEPT !.pc = "fallback", !.wrote = TRUE,
                                !.frame = KeepAliveBytes(vp.pin)]
                 ELSE [vp EXCEPT !.pc = "done", !.wrote = TRUE,
                                !.frame = KeepAliveBytes(vp.pin),
                                !.result = ValidateMain(vp.received)]
  /\ UNCHANGED <<envVars, calVars, extButVp, flagVars, authVars, localVars, position, touched,
                 client, cmdClient, pc, sc, ss, b>>

\* finally: stop notify; then the connectivity fallback
V_Fallback(stays) ==
  /\ vp.pc = "fallback"
  /\ vp' = [vp EXCEPT !.pc = "done", !.stayed = stays,
                    !.result = ValidateFallback(vp.received, stays)]
  /\ UNCHANGED <<envVars, calVars, extButVp, flagVars, authVars, localVars, position, touched,
                 client, cmdClient, faults, pc, sc, ss, b>>

\* the config flow has the result; the user may submit the form again
V_Again ==
  /\ vp.pc = "done"
  /\ vp' = VOff
  /\ UNCHANGED <<envVars, calVars, extButVp, flagVars, authVars, localVars, position, touched,
                 client, cmdClient, faults, pc, sc, ss, b>>

\* ------------------------------ async_send_system_command ("system")
\* pc: position; family, opcode: the arguments; cmd: the frame built, <<>> when
\* none is; result: the value returned
SYOff == [pc |-> "idle", family |-> "none", opcode |-> 0, cmd |-> <<>>, result |-> FALSE]

\* a checksum that is the complement of the opcode
ShortChecksumComplement(op) == 255 - op

\* (0x160 - op) & 0xFF
ShortChecksum(op) == (352 - op) % 256

\* the frame of a family, <<>> for a family that has none
SystemFrame(family, opcode) ==
  LET op == opcode % 256 IN
    IF family = "short" THEN <<64, 32, op, 0, 0, ShortChecksum(op), 64>>
    ELSE IF family = "72"
      THEN <<64, 32, 114, 0, 8, op, 0, 0, 16, 1, 1, 1, 1, 1, 64>>
      ELSE <<>>

\* async_send_system_command(family, opcode) up to the call of _send_command;
\* a family that is neither "short" nor "72" returns False
Y_Start(family, opcode) ==
  /\ sy.pc = "idle"
  /\ sc["system"].pc = "off"
  /\ LET cmd == SystemFrame(family, opcode) IN
       IF cmd = <<>>
         THEN /\ sy' = [pc |-> "done", family |-> family, opcode |-> opcode,
                        cmd |-> cmd, result |-> FALSE]
              /\ UNCHANGED <<sc, touched>>
         ELSE /\ sy' = [pc |-> "send", family |-> family, opcode |-> opcode,
                        cmd |-> cmd, result |-> FALSE]
              /\ sc' = [sc EXCEPT !["system"] = SendCommand(SystemData)]
              /\ touched' = [touched EXCEPT !["system"] = FALSE]
  /\ UNCHANGED <<envVars, calVars, extButSy, flagVars, authVars, localVars, position,
                 client, cmdClient, faults, pc, ss, b>>

\* return await self._send_command(cmd)
Y_Done ==
  /\ sy.pc = "send"
  /\ sc["system"].pc = "ret"
  /\ sy' = [sy EXCEPT !.pc = "done", !.result = sc["system"].result]
  /\ sc' = [sc EXCEPT !["system"] = SCOff]
  /\ UNCHANGED <<envVars, calVars, extButSy, flagVars, authVars, localVars, position, touched,
                 client, cmdClient, faults, pc, ss, b>>

\* the caller has the result; the next command may be asked for
Y_Again ==
  /\ sy.pc = "done"
  /\ sy' = SYOff
  /\ touched' = [touched EXCEPT !["system"] = FALSE]
  /\ UNCHANGED <<envVars, calVars, extButSy, flagVars, authVars, localVars, position,
                 client, cmdClient, faults, pc, sc, ss, b>>

\* ------------------------------------ diagnostic scan ("scan1".."scan3")
\* _TEST_SCAN_SETS: 1 and 2 are five short commands each, 4 is nine commands
\* of family 72, 5 is 0xA0..0xBF short, then 0xC0..0xC9 and 0xE0..0xE7 of 72
ScanSetIds == {1, 2, 4, 5}
TestScanSet(set_id) ==
  IF set_id = 1 THEN [i \in 1..5 |-> <<"short", 109 + i>>]
  ELSE IF set_id = 2 THEN <<<<"short", 126>>, <<"short", 127>>, <<"short", 128>>,
                            <<"short", 173>>, <<"short", 175>>>>
  ELSE IF set_id = 4 THEN [i \in 1..9 |-> <<"72", 212 + i>>]
  ELSE IF set_id = 5 THEN [i \in 1..32 |-> <<"short", 159 + i>>]
                          \o [i \in 1..10 |-> <<"72", 191 + i>>]
                          \o [i \in 1..8 |-> <<"72", 223 + i>>]
  ELSE <<>>

\* the task of a scan: pc "none" (not created), "new" (created, not run yet),
\* "send" (awaiting async_send_system_command), "sleep", "unwind" (cancelled,
\* CancelledError not yet raised in it), "done"; set_id: its argument; i: the
\* index of the pair it is at; stop: the event it read from _test_scan_stop
\* (0: none); born: the calls of async_stop_test_scan made before it was
\* created; sent: the pairs it handed to async_send_system_command; late: it
\* handed one over after a later call of async_stop_test_scan; failed: sends
\* of it that returned False
ScanTaskOff == [pc |-> "none", set_id |-> 0, i |-> 0, stop |-> 0, born |-> 0,
                sent |-> <<>>, late |-> FALSE, failed |-> 0]

\* task: _test_scan_task (0: None, else the number of the task); stop:
\* _test_scan_stop (0: None, else the number of the event, one per start);
\* set: the events that are set; last_desc, last_index, total, set_id: the
\* fields of these names; started: tasks created; stops: calls of
\* async_stop_test_scan
TSOff == [task |-> 0, stop |-> 0, set |-> {}, last_desc |-> <<>>, last_index |-> 0,
          total |-> 0, set_id |-> 0, started |-> 0, stops |-> 0,
          tasks |-> [k \in 1..MaxScans |-> ScanTaskOff]]

ScanProc(k) == IF k = 1 THEN "scan1" ELSE IF k = 2 THEN "scan2" ELSE "scan3"

\* the test_scan_running property
test_scan_running == ts.task # 0 /\ ts.tasks[ts.task].pc # "done"

\* "if self._test_scan_task is not None and not self._test_scan_task.done(): return"
ScanStartAllowed == ~test_scan_running

\* one pass of "for i, (family, opcode) in enumerate(commands)" of task k, whose
\* record is r, up to its await; the loop's end and the break run the finally,
\* which sets _test_scan_task = None
ScanPass(r, k) ==
  LET commands == TestScanSet(r.set_id)
      stopped == r.stop # 0 /\ r.stop \in ts.set
  IN IF r.i >= Len(commands) \/ stopped
       THEN [ts EXCEPT !.tasks[k] = [r EXCEPT !.pc = "done"], !.task = 0]
       ELSE [ts EXCEPT !.tasks[k] = [r EXCEPT !.pc = "send",
                                              !.sent = Append(@, commands[r.i + 1]),
                                              !.late = @ \/ ts.stops > r.born],
                       !.last_desc = commands[r.i + 1],
                       !.last_index = r.i + 1]

\* async_start_test_scan(set_id): unknown set or a task that is not done ->
\* return; else a new event, cleared, and a new task.  A task just created
\* makes its first run before the event loop takes a later call.
TS_Start(set_id) ==
  /\ ts.started < MaxScans
  /\ \A k \in 1..MaxScans : ts.tasks[k].pc # "new"
  /\ ts' = IF set_id \notin ScanSetIds \/ ~ScanStartAllowed THEN ts
           ELSE LET k == ts.started + 1 IN
                  [ts EXCEPT !.started = k, !.stop = k, !.set = @ \ {k}, !.task = k,
                             !.tasks[k] = [ScanTaskOff EXCEPT !.pc = "new",
                                                             !.set_id = set_id,
                                                             !.born = ts.stops]]
  /\ UNCHANGED <<envVars, calVars, extButTs, flagVars, authVars, localVars, position, touched,
                 client, cmdClient, faults, pc, sc, ss, b>>

\* the task runs for the first time: stop = self._test_scan_stop; set_id and
\* total are recorded; the first pass up to its await
TS_Begin(k) ==
  /\ ts.tasks[k].pc = "new"
  /\ LET r == [ts.tasks[k] EXCEPT !.stop = ts.stop]
         q == ScanPass(r, k)
     IN /\ ts' = [q EXCEPT !.set_id = r.set_id, !.total = Len(TestScanSet(r.set_id))]
        /\ IF q.tasks[k].pc = "send"
             THEN LET pair == TestScanSet(r.set_id)[1] IN
                    IF SystemFrame(pair[1], pair[2]) = <<>>
                      THEN sc' = [sc EXCEPT ![ScanProc(k)] = [SCOff EXCEPT !.pc = "ret"]]
                      ELSE sc' = [sc EXCEPT ![ScanProc(k)] = SendCommand(SystemData)]
             ELSE sc' = sc
  /\ UNCHANGED <<envVars, calVars, extButTs, flagVars, authVars, localVars, position, touched,
                 client, cmdClient, faults, pc, ss, b>>

\* await self.async_send_system_command(family, opcode) has returned (False
\* changes nothing); await asyncio.sleep(_TEST_SCAN_DELAY_SEC)
TS_Sent(k) ==
  /\ ts.tasks[k].pc = "send"
  /\ sc[ScanProc(k)].pc = "ret"
  /\ ts' = [ts EXCEPT !.tasks[k].pc = "sleep",
                      !.tasks[k].failed = IF sc[ScanProc(k)].result THEN @ ELSE @ + 1]
  /\ sc' = [sc EXCEPT ![ScanProc(k)] = SCOff]
  /\ UNCHANGED <<envVars, calVars, extButTs, flagVars, authVars, localVars, position, touched,
                 client, cmdClient, faults, pc, ss, b>>

\* the sleep is over: the next pass up to its await
TS_Next(k) ==
  /\ ts.tasks[k].pc = "sleep"
  /\ LET r == [ts.tasks[k] EXCEPT !.i = @ + 1]
         q == ScanPass(r, k)
     IN /\ ts' = q
        /\ IF q.tasks[k].pc = "send"
             THEN LET pair == TestScanSet(r.set_id)[r.i + 1] IN
                    IF SystemFrame(pair[1], pair[2]) = <<>>
                      THEN sc' = [sc EXCEPT ![ScanProc(k)] = [SCOff EXCEPT !.pc = "ret"]]
                      ELSE sc' = [sc EXCEPT ![ScanProc(k)] = SendCommand(SystemData)]
             ELSE sc' = sc
  /\ UNCHANGED <<envVars, calVars, extButTs, flagVars, authVars, localVars, position, touched,
                 client, cmdClient, faults, pc, ss, b>>

\* async_stop_test_scan(): set the event; cancel the task the field refers to
\* when it is not done; _test_scan_task = None.  A task cancelled before its
\* first run never enters its try; any other gets CancelledError at its await
\* when it next runs, its _send_command going no further.  A stop can precede
\* the first run of a task only in the callback that created it.
TS_Stop ==
  /\ ts.stops < MaxStopCalls
  /\ \A k \in 1..MaxScans : ts.tasks[k].pc = "new" => ts.task = k
  /\ LET k == ts.task
         cancels == k # 0 /\ ts.tasks[k].pc # "done"
     IN /\ ts' = [ts EXCEPT !.stops = @ + 1,
                            !.set = IF ts.stop # 0 THEN @ \cup {ts.stop} ELSE @,
                            !.task = 0,
                            !.tasks = IF cancels
                                        THEN [@ EXCEPT ![k].pc = IF @ = "new" THEN "done"
                                                                 ELSE "unwind"]
                                        ELSE @]
        /\ sc' = IF cancels THEN [sc EXCEPT ![ScanProc(k)] = SCOff] ELSE sc
  /\ UNCHANGED <<envVars, calVars, extButTs, flagVars, authVars, localVars, position, touched,
                 client, cmdClient, faults, pc, ss, b>>

\* the cancelled task runs: the finally of _send_command disconnects its
\* client, "except asyncio.CancelledError: pass", then the finally of
\* _run_test_scan: self._test_scan_task = None
TS_Unwind(k) ==
  /\ ts.tasks[k].pc = "unwind"
  /\ ts' = [ts EXCEPT !.tasks[k].pc = "done", !.task = 0]
  /\ cmdClient' = [cmdClient EXCEPT ![ScanProc(k)] = FALSE]
  /\ UNCHANGED <<envVars, calVars, extButTs, flagVars, authVars, localVars, position, touched,
                 client, faults, pc, sc, ss, b>>

\* --------------------------------------------- keep-alive loop ("ka")
\* handle: self._keep_alive_task is a task that is not done; tasks: keep-alive
\* tasks created and not cancelled; calls: start and cancel calls made;
\* last: the last of them; dup: start calls made while a task was running
KTOff == [handle |-> FALSE, tasks |-> 0, calls |-> 0, last |-> "none", dup |-> 0]
KTStarted == [KTOff EXCEPT !.handle = TRUE, !.tasks = 1]

\* a start that creates a task whatever the field holds
StartCreatesAlways == TRUE

\* start_keep_alive_loop creates a task unless
\* "self._keep_alive_task is not None and not self._keep_alive_task.done()"
StartCreates == ~kt.handle

\* start_keep_alive_loop()
K_Start ==
  /\ kt.calls < MaxTaskCalls
  /\ kt' = IF StartCreates
             THEN [kt EXCEPT !.handle = TRUE, !.tasks = @ + 1, !.calls = @ + 1,
                             !.last = "start"]
             ELSE [kt EXCEPT !.calls = @ + 1, !.last = "start", !.dup = @ + 1]
  /\ UNCHANGED <<envVars, calVars, extButKt, flagVars, authVars, localVars, position,
                 touched, client, cmdClient, faults, pc, sc, ss, b>>

\* cancel_keep_alive_loop(): task.cancel() and the field set to None; the task
\* gets CancelledError at the await it is in, which no "except Exception"
\* catches, and the finally of _send_command disconnects
K_Cancel ==
  /\ kt.calls < MaxTaskCalls
  /\ IF kt.handle
       THEN /\ kt' = [kt EXCEPT !.handle = FALSE, !.tasks = @ - 1, !.calls = @ + 1,
                                !.last = "cancel"]
            /\ pc' = [pc EXCEPT !["ka"] = "idle"]
            /\ sc' = [sc EXCEPT !["ka"] = SCOff]
            /\ cmdClient' = [cmdClient EXCEPT !["ka"] = FALSE]
            /\ touched' = [touched EXCEPT !["ka"] = FALSE]
       ELSE /\ kt' = [kt EXCEPT !.calls = @ + 1, !.last = "cancel"]
            /\ UNCHANGED <<pc, sc, cmdClient, touched>>
  /\ UNCHANGED <<envVars, calVars, extButKt, flagVars, authVars, localVars, position,
                 client, faults, ss, b>>

\* after sleep(KEEP_ALIVE_INTERVAL_SEC): if addr and _address_present(addr):
\* await self.async_send_keep_alive(), i.e. _send_command(auth command)
KeepAliveSends == AddressPresent

KA_Tick ==
  /\ pc["ka"] = "idle"
  /\ kt.tasks > 0
  /\ KeepAliveSends
  /\ touched' = [touched EXCEPT !["ka"] = FALSE]
  /\ sc' = [sc EXCEPT !["ka"] = SendCommand(AuthCommand)]
  /\ pc' = [pc EXCEPT !["ka"] = "sending"]
  /\ UNCHANGED <<envVars, calVars, extVars, flagVars, authVars, localVars, position,
                 client, cmdClient, faults, ss, b>>

\* the send has returned; sleep until the next interval
KA_Done ==
  /\ pc["ka"] = "sending"
  /\ sc["ka"].pc = "ret"
  /\ sc' = [sc EXCEPT !["ka"] = SCOff]
  /\ pc' = [pc EXCEPT !["ka"] = "idle"]
  /\ touched' = [touched EXCEPT !["ka"] = FALSE]
  /\ UNCHANGED <<envVars, calVars, extVars, flagVars, authVars, localVars, position,
                 client, cmdClient, faults, ss, b>>

\* ------------------------------------------------------------ environment
\* the bed enters or leaves the range of the Bluetooth adapters
EnvFlip ==
  /\ flips > 0
  /\ flips' = flips - 1
  /\ advertised' = ~advertised
  /\ UNCHANGED <<entry_address, field_address, calVars, extVars, flagVars, authVars,
                 localVars, position, touched, client, cmdClient, faults, pc, sc, ss, b>>

\* ------------------------------------------------------- initial states

\* positions restored from the entry options at construction
InitPositions == {[head |-> 0, feet |-> 503], [head |-> 150, feet |-> 1000],
                  [head |-> 985, feet |-> 15]}
\* calibration constants stored in the entry (1..120 s), in ms
InitCalibrations == {[head |-> 2000, feet |-> 1500]}
\* targets requested by services and cover sliders
Targets == {0, 10, 500, 1000}

\* the entry as the config flow made it, no advert seen, no discovery run
RegOff == [device_name |-> <<"R", "C", "2">>, title |-> <<"Octo Bed">>, nickname |-> "",
           infos |-> <<>>, calls |-> 0, scanned |-> FALSE, adopted |-> NoAddr,
           writes |-> 0]

\* the coordinator's fields after __init__
InitQuiet ==
  /\ movement_active = FALSE
  /\ calibration_active = FALSE
  /\ calibration_stopping = FALSE
  /\ calibration_mode = 0
  /\ authenticated = FALSE
  /\ device_has_no_pin = FALSE
  /\ last_end_set = FALSE
  /\ client = [p \in Procs |-> FALSE]
  /\ cmdClient = [p \in Procs |-> FALSE]
  /\ touched = [p \in Procs |-> FALSE]
  /\ pc = [p \in Procs |-> "idle"]
  /\ sc = [p \in Procs |-> SCOff]
  /\ ss = [p \in Procs |-> SSOff]
  /\ b = [p \in BCallers |-> BOff]
  /\ m = MOff
  /\ h = HOff
  /\ c = COff
  /\ pl = PLOff
  /\ vp = VOff
  /\ sy = SYOff
  /\ bt = BTOff
  /\ ts = TSOff

\* OctoBedCoordinator.__init__: nothing running, no flag set; the keep-alive
\* loop as async_setup_entry starts it
InitIdle == InitQuiet /\ reg = RegOff /\ kt = KTStarted

\* a configured address, the bed in range
InitCommon ==
  /\ InitIdle
  /\ advertised = TRUE
  /\ entry_address = "AA"
  /\ field_address = "AA"
  /\ position \in InitPositions
  /\ cal_opt \in InitCalibrations
  /\ cal_field = cal_opt

\* ------------------------------------- bounded movement on its own
InitBounded ==
  /\ InitCommon
  /\ faults = MaxFaults
  /\ flips = MaxEnvFlips

NextBounded ==
  \/ \E a \in Axes, t \in Targets : M_StartService(a, t)
  \/ \E a \in Axes, t \in Targets : M_StartCover(a, t)
  \/ M_ServiceReturn
  \/ M_CoverAfterStop
  \/ M_CoverAttempt
  \/ M_CoverReturn
  \/ B_Top("mover")
  \/ B_Pre("mover")
  \/ B_Stream("mover")
  \/ B_Stop("mover")
  \/ B_Except("mover")
  \/ B_Retry("mover")
  \/ B_Abort("mover")
  \/ B_Finally("mover")
  \/ SC_Connect("mover")
  \/ SC_Write("mover")
  \/ SC_Cleanup("mover")
  \/ SS_Connect("mover")
  \/ SS_Write("mover")
  \/ SS_Disc("mover")
  \/ EnvFlip

SpecBounded == InitBounded /\ [][NextBounded]_vars


\* ------------------------- each stream family on its own (no concurrency
\* between families): the hold switch with its task, the move-to-position
\* operation, and calibration start / task / stop
Quiet == \A p \in Procs : pc[p] = "idle"

\* commands of the hold switches exercised
HoldCommands == {CMD_HEAD_UP, CMD_FEET_DOWN, CMD_BOTH_UP}

InitStreams ==
  /\ InitCommon
  /\ faults = MaxFaultsStreams
  /\ flips = MaxEnvFlips

NextHold ==
  \/ H_Connect
  \/ H_Auth
  \/ H_Loop
  \/ H_Stop
  \/ H_HandlerDone
  \/ H_Finally
  \/ T_TurnOff
  \/ T_Joined
  \/ T_Timeout
  \/ SC_Connect("hold")
  \/ SC_Write("hold")
  \/ SC_Cleanup("hold")

NextMover ==
  \/ M_ServiceReturn
  \/ M_CoverAfterStop
  \/ M_CoverAttempt
  \/ M_CoverReturn
  \/ B_Top("mover")
  \/ B_Pre("mover")
  \/ B_Stream("mover")
  \/ B_Stop("mover")
  \/ B_Except("mover")
  \/ B_Retry("mover")
  \/ B_Abort("mover")
  \/ B_Finally("mover")
  \/ SC_Connect("mover")
  \/ SC_Write("mover")
  \/ SC_Cleanup("mover")
  \/ SS_Connect("mover")
  \/ SS_Write("mover")
  \/ SS_Disc("mover")

NextCalibrationSteps ==
  \/ CS_AfterStop
  \/ CS_Launch
  \/ SS_Connect("calstart")
  \/ SS_Write("calstart")
  \/ SS_Disc("calstart")
  \/ C_Top
  \/ C_WaitDev
  \/ C_Pre
  \/ C_Stream
  \/ C_Stop
  \/ C_HandlerDone
  \/ C_Finally
  \/ C_Final
  \/ C_CancelStop
  \/ C_CancelFin
  \/ SC_Connect("cal")
  \/ SC_Write("cal")
  \/ SC_Cleanup("cal")
  \/ ST_Joined
  \/ ST_Timeout
  \/ ST_AfterStop
  \/ ST_MoveNext
  \/ ST_MoveReturn
  \/ SS_Connect("calstop")
  \/ SS_Write("calstop")
  \/ SS_Disc("calstop")
  \/ B_Top("calstop")
  \/ B_Pre("calstop")
  \/ B_Stream("calstop")
  \/ B_Stop("calstop")
  \/ B_Except("calstop")
  \/ B_Retry("calstop")
  \/ B_Abort("calstop")
  \/ B_Finally("calstop")
  \/ SC_Connect("calstop")
  \/ SC_Write("calstop")
  \/ SC_Cleanup("calstop")

\* the stop measures some elapsed time
NextCalibration ==
  \/ NextCalibrationSteps
  \/ \E d \in CalMeasured : ST_Save(d)

\* the calibration handlers run while no hold or move-to-position is running
CalibrationOnly == pc["hold"] = "idle" /\ pc["mover"] = "idle" /\ pc["switch"] = "idle"

NextStreams ==
  \/ \E cmd \in HoldCommands : Quiet /\ H_TurnOn(cmd)
  \/ \E a \in Axes, t \in Targets : Quiet /\ M_StartService(a, t)
  \/ \E a \in Axes, t \in Targets : Quiet /\ M_StartCover(a, t)
  \/ \E a \in Axes : Quiet /\ CS_Start(a)
  \/ CalibrationOnly /\ ST_Start
  \/ NextHold
  \/ NextMover
  \/ NextCalibration
  \/ EnvFlip

SpecStreams == InitStreams /\ [][NextStreams]_vars

\* ------------- the poll cycle next to the streams, one stream family at a time
\* positions at which the concurrency specifications start
StartPositions == {[head |-> 150, feet |-> 1000]}

\* every process but the poll cycle is idle
QuietButPoll == \A p \in Procs \ {"poll"} : pc[p] = "idle"

\* the address may still be unknown (discovery by name) and the bed may be
\* out of range
InitPoll ==
  /\ InitIdle
  /\ advertised \in BOOLEAN
  /\ entry_address \in {"AA", NoAddr}
  /\ field_address = entry_address
  /\ position \in StartPositions
  /\ cal_opt \in InitCalibrations
  /\ cal_field = cal_opt
  /\ faults = MaxFaultsConc
  /\ flips = 0

\* answers of the bed exercised next to the streams
PollAnswers == PinAnswers \ {"not_set", "silent"}

NextPollCycle ==
  \/ P_Start
  \/ P_PinConnect
  \/ \E ans \in PollAnswers : P_PinIO(ans)
  \/ P_PinDone
  \/ P_Publish

NextPoll ==
  \/ QuietButPoll /\ H_TurnOn(CMD_HEAD_UP)
  \/ QuietButPoll /\ CS_Start("head")
  \/ CalibrationOnly /\ ST_Start
  \/ NextHold
  \/ NextCalibration
  \/ NextPollCycle

SpecPoll == InitPoll /\ [][NextPoll]_vars

\* ------------- concurrent operations: a hold switch, a move-to-position
\* service call and Stop All
InitConc ==
  /\ InitIdle
  /\ advertised = TRUE
  /\ entry_address = "AA"
  /\ field_address = "AA"
  /\ position \in StartPositions
  /\ cal_opt \in InitCalibrations
  /\ cal_field = cal_opt
  /\ faults = MaxFaultsConc
  /\ flips = MaxEnvFlips

NextConc ==
  \/ H_TurnOn(CMD_HEAD_UP)
  \/ NextHold
  \/ M_StartService("feet", 500)
  \/ M_ServiceReturn
  \/ B_Top("mover")
  \/ B_Pre("mover")
  \/ B_Stream("mover")
  \/ B_Stop("mover")
  \/ B_Except("mover")
  \/ B_Retry("mover")
  \/ B_Abort("mover")
  \/ B_Finally("mover")
  \/ SC_Connect("mover")
  \/ SC_Write("mover")
  \/ SC_Cleanup("mover")
  \/ SB_Press
  \/ SB_Done
  \/ SS_Connect("stopbtn")
  \/ SS_Write("stopbtn")
  \/ SS_Disc("stopbtn")
  \/ EnvFlip

SpecConc == InitConc /\ [][NextConc]_vars

\* ------------- the keep-alive loop next to a hold switch
NextKeepAlive ==
  \/ H_TurnOn(CMD_HEAD_UP)
  \/ NextHold
  \/ KA_Tick
  \/ KA_Done
  \/ SC_Connect("ka")
  \/ SC_Write("ka")
  \/ SC_Cleanup("ka")
  \/ EnvFlip

SpecKeepAlive == InitConc /\ [][NextKeepAlive]_vars

\* ======================================================== properties
\* C1 (as stated): at most one BLE connection to the bed is open at any time,
\* across all coordinator operations.
C1_SingleConnection == OpenClients <= 1

\* C2 (as stated): movement_active is True whenever a movement stream (hold or
\* bounded) is connected and sending directional commands, and
\* calibration_active is True while the calibration stream runs, in every
\* interleaving (two concurrent streams, Stop All during a stream).
C2_FlagsWhileStreaming ==
  /\ (pc["hold"] = "loop" /\ client["hold"]) => movement_active
  /\ \A p \in BCallers : (b[p].pc = "stream" /\ client[p]) => movement_active
  /\ (pc["cal"] = "stream" /\ client["cal"]) => calibration_active

\* C3: a poll cycle that starts while movement_active, calibration_active or
\* calibration_stopping is set opens no BLE connection, runs no discovery,
\* leaves authenticated unchanged and returns the current state snapshot.
C3_BusyPollSkips ==
  [][(/\ pc["poll"] = "idle"
      /\ pc'["poll"] # "idle"
      /\ (movement_active \/ calibration_active \/ calibration_stopping))
     => /\ pc'["poll"] = "returned"
        /\ pl'.returned = Data
        /\ client' = client
        /\ cmdClient' = cmdClient
        /\ ~touched'["poll"]
        /\ authenticated' = authenticated
        /\ field_address' = field_address
        /\ entry_address' = entry_address]_vars

\* a poll cycle has returned at the busy test while the calibration stream was
\* connected and streaming
C3_Witness ==
  /\ pc["poll"] = "returned"
  /\ pl.skipped
  /\ pl.returned = Data
  /\ calibration_active
  /\ pc["cal"] = "stream"
  /\ client["cal"]
  /\ c.streamed

\* a movement or calibration stream holds a connection
StreamConnected ==
  \/ pc["hold"] \in {"auth", "loop", "stop"} /\ client["hold"]
  \/ \E p \in BCallers : b[p].pc \in {"pre", "stream"} /\ client[p]
  \/ pc["cal"] \in {"pre", "stream"} /\ client["cal"]

\* C4 (as stated): the keep-alive loop sends only if the address is currently
\* observed and no movement or calibration session holds the connection; it
\* never opens a connection while a stream is in progress.
C4_KeepAliveOnlyWhenFree ==
  [][/\ (pc["ka"] = "idle" /\ pc'["ka"] = "sending")
          => AddressPresent /\ ~StreamConnected
     /\ (~cmdClient["ka"] /\ cmdClient'["ka"]) => ~StreamConnected]_vars

\* the bounded movement awaited by the move-to-position operation
BM == b["mover"]

\* the bounded movement has returned after exactly one error: "characteristic
\* not found" in its first attempt before the duration was streamed, with the
\* bed still visible after the pause
OneEarlyCharNotFound ==
  /\ BM.pc = "ret"
  /\ BM.entered
  /\ BM.errs = 1
  /\ BM.err1 = "charnf"
  /\ BM.err1_at < BM.dur
  /\ ~BM.nodev

LastErrorResumable == BM.err = "charnf" /\ BM.errs \in 1..(MOVE_ATTEMPTS - 1)

C5_FlagClearedOnExit ==
  [][/\ (pc["hold"] # "done" /\ pc'["hold"] = "done") => ~movement_active'
     /\ \A p \in BCallers :
          (b[p].pc # "ret" /\ b'[p].pc = "ret" /\ b'[p].entered) => ~movement_active']_vars

\* C6 (as stated): whenever a stream ends (duration elapsed, limit reached or
\* cooperative cancel), the stop frame has been written twice on the stream's
\* connection before that connection is released; for the hold stream, the
\* bounded stream and the calibration stream.
C6_TwoStopsBeforeRelease ==
  [][/\ (h.ended /\ client["hold"] /\ ~client'["hold"]) => h.stops = 2
     /\ \A p \in BCallers :
          (b[p].ended /\ client[p] /\ ~client'[p]) => b[p].stops = 2
     /\ (c.ended /\ client["cal"] /\ ~client'["cal"]) => c.stops = 2]_vars

\* C7 (as stated): every failure path (BLE error in the hold loop, a
\* non-retryable or budget-exhausting error in the bounded movement, device
\* unavailable on retry, calibration giving up because the BLE device is not
\* available) has attempted at least one best-effort stop when the failure is
\* reported.
C7_StopAttemptOnFailure ==
  /\ (pc["hold"] = "done" /\ h.failed) => h.stop_sends >= 1
  /\ \A p \in BCallers :
       (b[p].pc = "ret" /\ b[p].entered /\ ~b[p].result) => b[p].stop_sends >= 1
  /\ (pc["cal"] = "done" /\ c.gaveup) => c.stop_tries >= 1


\* clamp(lo, hi, x)
Clamp(lo, hi, x) == Max(lo, Min(hi, x))

\* the move-to-position operation has computed its duration or returned early
MoveDecided == pc["mover"] \in {"svc_run", "cov_run", "done"} /\ m.attempt = 0

\* C10 (as stated): the duration is clamp(300 ms, calibration_ms,
\* (|target - current| / 100) * calibration_ms) in whole milliseconds, and the
\* operation is a no-op (no connection, no stream, duration 0) exactly when
\* |target - current| < 0.5, on the service path and on the cover path.
C10_DurationAndNoOp ==
  MoveDecided =>
    LET diff == Abs(m.target - m.current) IN
      /\ m.noop <=> diff < NOOP_DIFF_T
      /\ m.noop => m.duration = 0 /\ ~touched["mover"] /\ ~BM.entered
      /\ ~m.noop => m.duration = Clamp(MIN_DURATION_MS, m.cal, (diff * m.cal) \div 1000)

\* --------------------- one move-to-position with a 30 s head calibration
\* head flat, calibrated at 30 s for the full travel; feet mid-way
InitMove ==
  /\ InitIdle
  /\ advertised = TRUE
  /\ entry_address = "AA"
  /\ field_address = "AA"
  /\ position = [head |-> 0, feet |-> 503]
  /\ cal_opt = [head |-> 30000, feet |-> 1500]
  /\ cal_field = cal_opt
  /\ faults = MaxFaultsConc
  /\ flips = 0

NextMove ==
  \/ \E t \in {0, 500} : M_StartService("head", t)
  \/ M_StartService("feet", 0)
  \/ \E t \in {0, 1000} : M_StartCover("feet", t)
  \/ NextMover

SpecMove == InitMove /\ [][NextMove]_vars

\* the mover leaves the wait for async_run_movement_for_duration
MoveReturns ==
  /\ pc["mover"] \in {"svc_run", "cov_run"}
  /\ b["mover"].pc = "ret"
  /\ pc'["mover"] # pc["mover"]

\* C11: when a move-to-position on one axis returns success, that axis's
\* estimate becomes exactly the requested target; when it returns failure the
\* return leaves both estimates as they were; and no step of the operation
\* changes the other axis's estimate.
C11_TargetOnSuccess ==
  [][ /\ (pc["mover"] \notin {"idle", "done"})
           => position'[OtherAxis(m.axis)] = position[OtherAxis(m.axis)]
      /\ MoveReturns
           => IF b["mover"].result
                THEN position'[m.axis] = m.target
                ELSE position' = position ]_vars

\* head 0 -> 50 with a 30000 ms calibration: 15000 ms requested, the
\* operation succeeded and the estimate is 50.0, the feet where they were
C11_Witness ==
  /\ pc["mover"] = "done"
  /\ m.path = "service" /\ m.axis = "head" /\ m.ok
  /\ m.current = 0 /\ m.target = 500 /\ m.cal = 30000 /\ m.duration = 15000
  /\ position = [head |-> 500, feet |-> 503]

\* ------------- every operation that writes a position, one family at a time
InitRange ==
  /\ InitCommon
  /\ faults = MaxFaultsConc
  /\ flips = MaxEnvFlips

SpecRange == InitRange /\ [][NextStreams]_vars

\* C12: in every reachable state both position estimates lie in [0, 100],
\* whatever sequence of move-to-position, hold movement, calibration start and
\* stop, move-to-zero and limit events produced them.
C12_PositionInRange ==
  \A a \in Axes : position[a] >= 0 /\ position[a] <= POS_MAX_T

\* both-up held from feet already at 100: the head estimate has advanced and
\* the feet estimate, whose raw value start + delta is above 100, stays at 100
C12_Witness ==
  /\ pc["hold"] = "loop"
  /\ h.cmd = CMD_BOTH_UP /\ h.streamed
  /\ h.start["feet"] = POS_MAX_T
  /\ position["head"] > h.start["head"]
  /\ position["feet"] = POS_MAX_T

\* ------------------------------ the stop button pressed again and again
InitStop ==
  /\ InitCommon
  /\ faults = MaxFaultsStreams
  /\ flips = MaxEnvFlips

NextStop ==
  \/ SB_Press
  \/ SS_Connect("stopbtn")
  \/ SS_Write("stopbtn")
  \/ SS_Disc("stopbtn")
  \/ SB_Done
  \/ SB_Again
  \/ EnvFlip

SpecStop == InitStop /\ [][NextStop]_vars

\* C13: no step of async_send_stop changes a position estimate, however many
\* times in a row it is called and whether or not a send succeeds.
C13_StopKeepsPositions ==
  [][ (ss'["stopbtn"] # ss["stopbtn"] \/ pc'["stopbtn"] # pc["stopbtn"])
        => position' = position ]_vars

\* a send that succeeded after an earlier send of the same run had failed
C13_Witness ==
  /\ pc["stopbtn"] = "sending"
  /\ ss["stopbtn"].pc = "ret" /\ ss["stopbtn"].result
  /\ faults < MaxFaultsStreams
  /\ position \in InitPositions

\* ----------------------------- one calibration run with its time measured
\* run times at the stop request: under 1 s and 3 s; 45 s and over 120 s are
\* explored on a link whose fault budget is used up (the move back to 0% then
\* takes hundreds of loop passes)
CalRunTimes == {400, 3000}
CalLongRunTimes == {45000, 130000}

InitCalTime ==
  /\ InitIdle
  /\ advertised \in BOOLEAN
  /\ entry_address = "AA"
  /\ field_address = "AA"
  /\ position \in StartPositions
  /\ cal_opt \in InitCalibrations
  /\ cal_field = cal_opt
  /\ faults = MaxFaultsConc
  /\ flips = 0

NextCalTime ==
  \/ \E a \in Axes : Quiet /\ CS_Start(a)
  \/ \E t \in CalRunTimes : CalRuns(t)
  \/ \E t \in CalLongRunTimes : faults = 0 /\ CalRuns(t)
  \/ ST_Start
  \/ NextCalibrationSteps
  \/ ST_Save(MeasuredMs)

SpecCalTime == InitCalTime /\ [][NextCalTime]_vars

\* C14: whatever the elapsed time of a calibration run, the constant stored by
\* calibration stop lies in [1000, 120000] ms.
C14_CalibrationClamped ==
  \A a \in Axes : /\ cal_field[a] >= MIN_CALIBRATION_MS
                   /\ cal_field[a] <= MAX_CALIBRATION_MS
                   /\ cal_opt[a] >= MIN_CALIBRATION_MS
                   /\ cal_opt[a] <= MAX_CALIBRATION_MS

\* a run of more than 120 s was stopped and 120000 ms were stored
C14_Witness ==
  /\ pc["calstop"] \in {"to_zero", "moving", "done"}
  /\ c.was \in Axes
  /\ c.run > MAX_CALIBRATION_MS
  /\ cal_field[c.was] = MAX_CALIBRATION_MS

\* async_stop_calibration is under way for a calibration of one axis
CalStopRunning == pc["calstop"] \notin {"idle", "done"} /\ c.was \in Axes

\* async_stop_calibration takes its measurement
CalStopMeasures == pc["calstop"] = "sleep" /\ pc'["calstop"] = "to_zero"

\* C15: calibration stop of a running calibration of axis X measures only
\* after the stream task has ended (joined within the bounded wait or
\* cancelled), stores the clamped measurement for X and sets X to 100 in one
\* step, then starts one bounded down movement of X whose duration is the new
\* constant, hands the constant to the caller when it returns, and never
\* changes the other axis's position or constant.
C15_StopOrder ==
  [][ CalStopRunning =>
        /\ position'[OtherAxis(c.was)] = position[OtherAxis(c.was)]
        /\ cal_field'[OtherAxis(c.was)] = cal_field[OtherAxis(c.was)]
        /\ cal_opt'[OtherAxis(c.was)] = cal_opt[OtherAxis(c.was)]
        /\ (pc["calstop"] = "wait" /\ pc'["calstop"] = "cancelling") => c'.cancelled
        /\ CalStopMeasures =>
             /\ pc["cal"] = "done" /\ ~c.task
             /\ b["calstop"] = BOff
             /\ cal_field'[c.was] = ClampCalibration(MeasuredMs)
             /\ position'[c.was] = POS_MAX_T
        /\ (pc["calstop"] = "to_zero" /\ pc'["calstop"] = "moving") =>
             /\ c.todo = {c.was}
             /\ position[c.was] = POS_MAX_T
             /\ b'["calstop"].cmd = DownCmd(c.was)
             /\ b'["calstop"].dur = Max(MIN_DURATION_MS, cal_field[c.was])
        /\ pc'["calstop"] = "done" => cal_opt'[c.was] = cal_field[c.was] ]_vars

\* a head calibration of 3 s whose task had to be cancelled: the new head
\* constant is stored and handed over, the head is back at 0, the feet and
\* their constant are as before
C15_Witness ==
  /\ pc["calstop"] = "done"
  /\ c.was = "head" /\ c.run = 3000 /\ c.cancelled
  /\ cal_field["head"] >= 3000 + CAL_STOP_TIMEOUT_MS + CAL_STOP_SETTLE_MS
  /\ cal_opt["head"] = cal_field["head"]
  /\ position["head"] = 0
  /\ position["feet"] = 1000 /\ cal_field["feet"] = 1500 /\ cal_opt["feet"] = 1500

\* C16: the constant stored by calibration stop is the clamped run time of the
\* stream up to the stop request; the time the stop itself spends (waiting for
\* the task, sending the stop frames, settling) is not part of it.
C16_StoredIsRunTime ==
  [][ (CalStopRunning /\ CalStopMeasures)
        => cal_field'[c.was] = ClampCalibration(c.run) ]_vars

\* ------------------------------- two calibration start requests, any order
InitCalStart ==
  /\ InitIdle
  /\ advertised \in BOOLEAN
  /\ entry_address = "AA"
  /\ field_address = "AA"
  /\ position \in StartPositions
  /\ cal_opt \in InitCalibrations
  /\ cal_field = cal_opt
  /\ faults = MaxFaultsConc
  /\ flips = 0

NextCalStart ==
  \/ \E a \in Axes : CS_Start(a)
  \/ CS_AfterStop
  \/ CS_Launch
  \/ \E a \in Axes : CS2_Start(a)
  \/ CS2_AfterStop
  \/ CS2_Launch
  \/ SS_Connect("calstart")
  \/ SS_Write("calstart")
  \/ SS_Disc("calstart")
  \/ SS_Connect("calstart2")
  \/ SS_Write("calstart2")
  \/ SS_Disc("calstart2")
  \/ C_Top
  \/ C_WaitDev
  \/ C_Pre
  \/ C_Stream
  \/ C_HandlerDone
  \/ C_Finally
  \/ SC_Connect("cal")
  \/ SC_Write("cal")
  \/ SC_Cleanup("cal")

SpecCalStart == InitCalStart /\ [][NextCalStart]_vars

\* calibration stream tasks that exist
CalTasksAlive == (IF CalTaskRunning THEN 1 ELSE 0) + c.extra

\* C17: a start request made while a calibration task is running returns
\* without changing anything, and under any interleaving of start requests at
\* most one calibration stream task exists at a time.
C17_OneCalibrationTask ==
  [][ /\ \A p \in {"calstart", "calstart2"} :
           (pc[p] = "idle" /\ pc'[p] = "done")
             => (c.task /\ CalTaskRunning /\ UNCHANGED <<position, c, flagVars, calVars>>)
      /\ CalTasksAlive' <= 1 ]_vars

\* ------------------- the PIN check of the poll cycle on notification frames
\* tail lengths of the frames drawn
MaxTail == 3
\* 40 / 46 / 21 as first byte, 21 / 40 as second
HeaderBytes0 == {64, 70, 33}
HeaderBytes1 == {33, 64}
\* 1A, 18, 1B, 00, 1F and two bytes without a meaning (36, 01)
StatusBytes == {26, 24, 27, 0, 31, 54, 1}
\* the bytes that follow the header in the captured answers: 43 00 01
Filler == <<67, 0, 1>>
Tails == UNION {[1..k -> StatusBytes] : k \in 0..MaxTail}
Frames ==
  {<<>>, <<64>>, <<33>>, <<26>>}
  \cup {<<b0, b1>> \o SubSeq(Filler, 1, n) \o t :
          b0 \in HeaderBytes0, b1 \in HeaderBytes1, n \in {0, Len(Filler)}, t \in Tails}

InitParse ==
  /\ InitIdle
  /\ advertised = TRUE
  /\ entry_address = "AA"
  /\ field_address = "AA"
  /\ position \in StartPositions
  /\ cal_opt \in InitCalibrations
  /\ cal_field = cal_opt
  /\ faults = MaxFaultsConc
  /\ flips = 0

NextParse ==
  \/ P_Start
  \/ P_PinConnect
  \/ \E f \in Frames : pl.received = <<>> /\ P_Notify(f)
  \/ P_PinFrames
  \/ P_PinDone
  \/ P_Publish

SpecParse == InitParse /\ [][NextParse]_vars

\* the classification the specification gives for a notification frame
ReferencePinResponse(data) ==
  IF Len(data) < 2 THEN "Unknown"
  ELSE IF data[2] # 33 \/ data[1] \notin {64, 70} THEN "Unknown"
  ELSE LET st == IF Len(data) > 5 THEN data[6] ELSE data[Len(data)] IN
         IF st = 26 THEN "Accepted"
         ELSE IF st \in {24, 27, 0} THEN "Rejected"
         ELSE IF st = 31 THEN "NoPinSet"
         ELSE "Unknown"

\* True, False, None as classifications
AsPinResponse(v) == IF v = "true" THEN "Accepted"
                    ELSE IF v = "false" THEN "Rejected" ELSE "Unknown"

\* C18: for every notification frame the parser's result is the reference
\* classification: Unknown unless byte[1] = 0x21 and byte[0] is 0x40 or 0x46; the
\* status byte is byte[5] when the frame has more than 5 bytes and the last
\* byte only when it is shorter; 0x1A Accepted, 0x18 / 0x1B / 0x00 Rejected,
\* 0x1F NoPinSet, anything else Unknown.
C18_ParseMatchesReference ==
  \A i \in 1..Len(pl.received) :
     AsPinResponse(pl.verdicts[i]) = ReferencePinResponse(pl.received[i])

\* ------------- the PIN check next to Stop All and the keep-alive loop
\* notifications the bed sends within 2.5 s of the keep-alive frame
MaxNotifications == 2
\* 40 21 43 00 01 1A 01 40
FrameAccepted == <<64, 33, 67, 0, 1, 26, 1, 64>>
\* 40 21 43 00 01 1B 00 40
FrameRejected == <<64, 33, 67, 0, 1, 27, 0, 64>>
\* 40 21 3C 01 00 00 1F 40
FrameNotSet == <<64, 33, 60, 1, 0, 0, 31, 64>>
\* a notification that is no PIN answer
FrameOther == <<64, 32, 2, 0, 64>>
AuthFrames == {FrameAccepted, FrameRejected, FrameNotSet, FrameOther}

InitAuth ==
  /\ InitIdle
  /\ advertised = TRUE
  /\ entry_address = "AA"
  /\ field_address = "AA"
  /\ position \in StartPositions
  /\ cal_opt \in InitCalibrations
  /\ cal_field = cal_opt
  /\ faults = MaxFaultsConc
  /\ flips = 0

NextAuth ==
  \/ P_Start
  \/ P_PinConnect
  \/ \E f \in AuthFrames : Len(pl.window) < MaxNotifications /\ P_Notify(f)
  \/ \E f \in AuthFrames : Len(pl.window) < MaxNotifications /\ P_Missed(f)
  \/ P_PinFrames
  \/ P_PinDone
  \/ P_Publish
  \/ SB_Press
  \/ SS_Connect("stopbtn")
  \/ SS_Write("stopbtn")
  \/ SS_Disc("stopbtn")
  \/ SB_Done
  \/ SB_Again
  \/ KA_Tick
  \/ SC_Connect("ka")
  \/ SC_Write("ka")
  \/ SC_Cleanup("ka")
  \/ KA_Done

SpecAuth == InitAuth /\ [][NextAuth]_vars

\* this step is the PIN check finding a 0x1F notification after its write
ObservesNoPin ==
  /\ pc["poll"] = "pin_io"
  /\ pc'["poll"] = "pin_done"
  /\ pl'.wrote
  /\ CheckAnswer(pl.received, TRUE) = "not_set"

\* this step is async_send_stop writing its auth frame and the stop frames
StopWrites(p) == ss[p].pc = "write" /\ ss'[p].pc = "disc" /\ ss'[p].result

\* this step is _send_command writing its frames
CommandWrites(p) == sc[p].pc = "write" /\ sc'[p].pc = "cleanup" /\ sc'[p].result

\* C19: when the PIN check observes the no-PIN answer it succeeds and sets the
\* mode; the mode, once set, stays set; and every command written while it is
\* set (Stop All, the keep-alive loop's frame) goes out with the app-init frame,
\* not the PIN keep-alive frame.
C19_StickyAppInit ==
  [][ /\ ObservesNoPin => (pl'.pin /\ device_has_no_pin')
      /\ device_has_no_pin => device_has_no_pin'
      /\ \A p \in Procs :
            /\ (StopWrites(p) /\ device_has_no_pin) => ss[p].auth = CMD_APP_INIT
            /\ (CommandWrites(p) /\ device_has_no_pin) => sc[p].auth = CMD_APP_INIT
    ]_vars

\* the parts of C19 taken one at a time
C19_ObservedSucceeds == [][ObservesNoPin => (pl'.pin /\ device_has_no_pin')]_vars
C19_ModeStays == [][device_has_no_pin => device_has_no_pin']_vars
C19_WritesAppInit ==
  [][\A p \in Procs :
        /\ (StopWrites(p) /\ device_has_no_pin) => ss[p].auth = CMD_APP_INIT
        /\ (CommandWrites(p) /\ device_has_no_pin) => sc[p].auth = CMD_APP_INIT]_vars
\* an operation that starts while the mode is set uses the app-init frame
C19_StartsWithAppInit ==
  [][\A p \in Procs :
        /\ (ss[p].auth = "none" /\ ss'[p].auth # "none" /\ device_has_no_pin)
              => ss'[p].auth = CMD_APP_INIT
        /\ (sc[p].auth = "none" /\ sc'[p].auth # "none" /\ device_has_no_pin)
              => sc'[p].auth = CMD_APP_INIT]_vars

\* the first notification of the list that the specification's classification
\* does not call Unknown, 0 if there is none
FirstClassifying(frames) ==
  LET idx == {i \in 1..Len(frames) : ReferencePinResponse(frames[i]) # "Unknown"}
  IN IF idx = {} THEN 0 ELSE CHOOSE i \in idx : \A j \in idx : i <= j

\* the classification of that notification, "Unknown" if there is none
FirstClass(frames) ==
  IF FirstClassifying(frames) = 0 THEN "Unknown"
  ELSE ReferencePinResponse(frames[FirstClassifying(frames)])

\* the poll cycle has returned after a PIN check that wrote its keep-alive frame
CheckReturned == pc["poll"] = "returned" /\ pl.wrote

\* C20: when the PIN check has written its frame and the first classifying
\* notification the bed sent within the 2.5 s is Accepted, the check succeeds
\* and the poll cycle reports "connected"; when it is Rejected, the check fails
\* and the cycle reports "pin_not_accepted"; whether the link stayed up does
\* not matter.
C20_FirstClassifyingDecides ==
  CheckReturned =>
    /\ FirstClass(pl.window) = "Accepted" =>
          (authenticated /\ pl.returned.connection_status = "connected")
    /\ FirstClass(pl.window) = "Rejected" =>
          (~authenticated /\ pl.returned.connection_status = "pin_not_accepted")

\* the same for the two captured answers arriving alone
C20_CapturedAnswers ==
  CheckReturned =>
    /\ pl.window = <<FrameAccepted>> =>
          (authenticated /\ pl.returned.connection_status = "connected")
    /\ pl.window = <<FrameRejected>> =>
          (~authenticated /\ pl.returned.connection_status = "pin_not_accepted")

\* the same with the notifications the check has in its list when its wait
\* ends, none of them holding a 0x1F byte
C20_ReceivedDecide ==
  (CheckReturned /\ \A i \in 1..Len(pl.received) : ~HasNotSetByte(pl.received[i])) =>
    /\ FirstClass(pl.received) = "Accepted" =>
          (authenticated /\ pl.returned.connection_status = "connected")
    /\ FirstClass(pl.received) = "Rejected" =>
          (~authenticated /\ pl.returned.connection_status = "pin_not_accepted")

\* the same for every notification sent within the 2.5 s, none of them
\* holding a 0x1F byte
C20_WindowDecides ==
  (CheckReturned /\ \A i \in 1..Len(pl.window) : ~HasNotSetByte(pl.window[i])) =>
    /\ FirstClass(pl.window) = "Accepted" =>
          (authenticated /\ pl.returned.connection_status = "connected")
    /\ FirstClass(pl.window) = "Rejected" =>
          (~authenticated /\ pl.returned.connection_status = "pin_not_accepted")

\* ------------- the PIN check and validate_pin when the bed may stay silent
InitFallback ==
  /\ InitIdle
  /\ advertised \in BOOLEAN
  /\ entry_address = "AA"
  /\ field_address = "AA"
  /\ position \in StartPositions
  /\ cal_opt \in InitCalibrations
  /\ cal_field = cal_opt
  /\ faults = MaxFaultsConc
  /\ flips = 0

NextFallback ==
  \/ P_Start
  \/ P_PinConnect
  \/ \E f \in AuthFrames : Len(pl.window) < MaxNotifications /\ P_Notify(f)
  \/ \E f \in AuthFrames : Len(pl.window) < MaxNotifications /\ P_Missed(f)
  \/ P_PinFrames
  \/ P_PinDone
  \/ P_Publish
  \/ \E addr \in {"AA", NoAddr} : V_Start(addr, DefaultPin)
  \/ V_Connect
  \/ \E f \in AuthFrames : Len(vp.received) < MaxNotifications /\ V_Notify(f)
  \/ V_Main
  \/ \E stays \in BOOLEAN : V_Fallback(stays)
  \/ V_Again

SpecFallback == InitFallback /\ [][NextFallback]_vars

\* no notification of the list decides the check: none holds a 0x1F byte and
\* none is parsed as accepted or rejected
NoneDecides(frames) == FirstDeciding(frames) = 0

\* the poll cycle's PIN check returns after its write with no deciding
\* notification sent by the bed
SilentCheckReturns ==
  /\ pc["poll"] = "pin_done"
  /\ pc'["poll"] = "returned"
  /\ pl.wrote
  /\ NoneDecides(pl.window)

\* validate_pin has returned after its write with no deciding notification
SilentValidateReturned == vp.pc = "done" /\ vp.wrote /\ NoneDecides(vp.received)

C22_AmbiguousIsDistinct ==
  /\ (CheckReturned /\ NoneDecides(pl.window)) =>
        pl.returned.connection_status \notin {"connected", "pin_not_accepted"}
  /\ SilentValidateReturned => vp.result \notin {"ok", "wrong_pin"}

\* ------------- the poll cycle while the bed comes and goes
InitStatus ==
  /\ InitIdle
  /\ advertised \in BOOLEAN
  /\ entry_address \in {"AA", NoAddr}
  /\ field_address = entry_address
  /\ position \in StartPositions
  /\ cal_opt \in InitCalibrations
  /\ cal_field = cal_opt
  /\ faults = MaxFaultsConc
  /\ flips = MaxEnvFlips + 1

NextStatus ==
  \/ P_Start
  \/ P_PinConnect
  \/ \E ans \in PinAnswers : P_PinIO(ans)
  \/ P_PinDone
  \/ P_Publish
  \/ EnvFlip

SpecStatus == InitStatus /\ [][NextStatus]_vars

ConnectionStates == {"searching", "disconnected", "pin_not_accepted", "connected"}

\* the four-way rule of the claim for a snapshot taken in the current state
SnapshotRule(snap) ==
  /\ snap.connection_status \in ConnectionStates
  /\ snap.connection_status = "searching" <=> device_address = NoAddr
  /\ snap.connection_status = "disconnected" <=> (device_address # NoAddr /\ ~advertised)
  /\ snap.connection_status = "pin_not_accepted" <=>
        (device_address # NoAddr /\ advertised /\ ~authenticated)
  /\ snap.connection_status = "connected" <=>
        (device_address # NoAddr /\ advertised /\ authenticated)
  /\ snap.connected <=> snap.connection_status = "connected"

\* the flag is the result of the last PIN check, cleared by a poll cycle that
\* finds the address missing or not observed
AuthenticatedIsLastAttempt ==
  authenticated' # authenticated =>
    \/ pc["poll"] = "pin_done" /\ pc'["poll"] = "returned" /\ authenticated' = pl.pin
    \/ pc["poll"] = "idle" /\ pc'["poll"] = "returned" /\ ~AddressPresent /\ ~authenticated'

\* C23: every state snapshot carries one of the four connection states:
\* searching iff no address is known, disconnected iff the address is known
\* and not observed, pin_not_accepted iff it is observed and the last PIN check
\* did not succeed, connected iff it is observed and the last check succeeded;
\* "connected" is true iff the state is connected. The snapshot a poll cycle
\* returns is the one of the state it returns in.
C23_ConnectionStatus ==
  [][ /\ SnapshotRule(Data)'
      /\ AuthenticatedIsLastAttempt
      /\ (pc'["poll"] = "returned" /\ pc["poll"] # "returned") => pl'.returned = Data'
    ]_vars

\* the last check succeeded and the bed has since left: the snapshot reports
\* disconnected, the returned one still connected
C23_Witness ==
  /\ authenticated
  /\ Data.connection_status = "disconnected"
  /\ ~Data.connected
  /\ pl.returned.taken /\ pl.returned.connection_status = "connected"

\* ------------- discovery of the bed's address by name
\* one advert per device; the connectable ones are also in the list of all
AdvertNames == {<<"R", "C", "2">>, <<"r", "c", "2">>, <<"R", "c", "2", " ">>,
                <<"R", "C", "3">>, <<>>}
Adverts == [address : {"AA", "BB"}, name : AdvertNames, connectable : BOOLEAN]
AdvertLists ==
  {l \in UNION {[1..k -> Adverts] : k \in 0..MaxAdverts} :
     \A i, j \in 1..Len(l) : i # j => l[i].address # l[j].address}
DeviceNames == {<<"R", "C", "2">>, <<" ", "r", "c", "2">>, <<>>}
Titles == {<<>>, <<"Octo Bed">>, <<"Octo Bed", "">>, <<"Octo Bed", "CC">>,
           <<"Octo Bed", "Anna">>, <<"Master bedroom">>}
Nicknames == {"", "Anna"}

InitResolve ==
  /\ InitQuiet
  /\ kt = KTStarted
  /\ reg \in {[RegOff EXCEPT !.device_name = n, !.title = t, !.nickname = k, !.infos = l] :
                n \in DeviceNames, t \in Titles, k \in Nicknames, l \in AdvertLists}
  /\ entry_address \in {NoAddr, "AA", "CC"}
  /\ field_address = entry_address
  /\ advertised = Observed(device_address)
  /\ position \in StartPositions
  /\ cal_opt \in InitCalibrations
  /\ cal_field = cal_opt
  /\ faults = 0
  /\ flips = 0

NextResolve == R_Ensure

SpecResolve == InitResolve /\ [][NextResolve]_vars

\* the adverts whose name is the configured one, case and surrounding blanks
\* aside (an empty name matches nothing)
Matching ==
  {i \in 1..Len(reg.infos) :
     /\ reg.infos[i].name # <<>>
     /\ reg.device_name # <<>>
     /\ StripUpper(reg.infos[i].name) = StripUpper(reg.device_name)}
MatchingConnectable == {i \in Matching : reg.infos[i].connectable}

\* the first matching device, connectable adverts before the others
FirstMatching ==
  LET from == IF MatchingConnectable # {} THEN MatchingConnectable ELSE Matching
  IN reg.infos[CHOOSE i \in from : \A j \in from : i <= j].address

\* this step is a call of the discovery
EnsureRuns == reg'.calls = reg.calls + 1

\* the title is the nickname's or one the user set
CustomTitle == reg.nickname # "" \/ reg.title \in {<<"Octo Bed", "Anna">>, <<"Master bedroom">>}
AddressTitles == {AddressTitle(a) : a \in {"AA", "BB", "CC"}}

C25_ResolveChangesNothing ==
  [][ (EnsureRuns /\ (Observed(device_address) \/ Matching = {})) =>
        /\ UNCHANGED <<entry_address, field_address>>
        /\ reg'.title = reg.title
        /\ reg'.writes = reg.writes
        /\ reg'.adopted = NoAddr
        /\ Observed(device_address) => ~reg'.scanned
    ]_vars

\* the configured address AA is observed while another advert carries the
\* name: nothing was scanned or written
C25_Witness ==
  /\ reg.calls = 1
  /\ ~reg.scanned
  /\ reg.writes = 0
  /\ entry_address = "AA"
  /\ Len(reg.infos) = 2
  /\ reg.infos[1].address = "BB" /\ reg.infos[1].name = <<"R", "C", "2">>
  /\ reg.infos[2].address = "AA" /\ reg.infos[2].name = <<"R", "C", "3">>
  /\ reg.device_name = <<"R", "C", "2">>

\* the address is not configured and nothing matches: two calls, nothing written
C25_WitnessNoMatch ==
  /\ reg.calls = 2
  /\ reg.scanned
  /\ reg.writes = 0
  /\ entry_address = NoAddr
  /\ Len(reg.infos) = 1

\* ------------- starting and cancelling the keep-alive loop
InitKeepTask ==
  /\ InitQuiet
  /\ reg = RegOff
  /\ kt = KTOff
  /\ advertised = TRUE
  /\ entry_address = "AA"
  /\ field_address = "AA"
  /\ position \in StartPositions
  /\ cal_opt \in InitCalibrations
  /\ cal_field = cal_opt
  /\ faults = MaxFaultsConc
  /\ flips = MaxEnvFlips

NextKeepTask ==
  \/ K_Start
  \/ K_Cancel
  \/ KA_Tick
  \/ SC_Connect("ka")
  \/ SC_Write("ka")
  \/ SC_Cleanup("ka")
  \/ KA_Done
  \/ EnvFlip

SpecKeepTask == InitKeepTask /\ [][NextKeepTask]_vars

\* this step is a call of start_keep_alive_loop / cancel_keep_alive_loop
StartCalled == kt'.calls = kt.calls + 1 /\ kt'.last = "start"
CancelCalled == kt'.calls = kt.calls + 1 /\ kt'.last = "cancel"

\* this step is the keep-alive loop doing something: waking up, connecting,
\* writing its frame, cleaning up, going back to sleep
KeepAliveActs == pc'["ka"] # pc["ka"] \/ sc'["ka"] # sc["ka"]

\* C26: start and cancel of the keep-alive loop are idempotent: at most one
\* keep-alive task that is not cancelled exists; a start while a task runs
\* creates none; a cancel without a task changes nothing; and after a cancel
\* the loop neither writes a frame nor does anything else until the next start.
C26_KeepAliveIdempotent ==
  [][ /\ kt'.tasks <= 1
      /\ (StartCalled /\ kt.tasks = 1) => (kt'.tasks = 1 /\ kt'.handle)
      /\ (StartCalled /\ kt.tasks = 0) => (kt'.tasks = 1 /\ kt'.handle)
      /\ (CancelCalled /\ kt.tasks = 0) =>
            (kt'.tasks = 0 /\ ~kt'.handle /\ UNCHANGED <<pc, sc, cmdClient>>)
      /\ CancelCalled => (kt'.tasks = 0 /\ sc'["ka"] = SCOff /\ ~cmdClient'["ka"])
      /\ (kt.tasks = 0 /\ ~StartCalled) => ~CommandWrites("ka")
      /\ (kt.tasks = 0 /\ KeepAliveActs) => FALSE
    ]_vars

\* start, start again while the loop is sending, then cancel: no task is left
\* and the send in flight is gone
C26_Witness ==
  /\ kt.calls = 3
  /\ kt.dup = 1
  /\ kt.last = "cancel"
  /\ kt.tasks = 0
  /\ ~kt.handle
  /\ sc["ka"] = SCOff
  /\ pc["ka"] = "idle"

\* ------------- validate_pin on PIN strings
PinChars == {"1", "2", " ", "x"}
Pins == UNION {[1..k -> PinChars] : k \in 0..MaxPinLen}

InitPin ==
  /\ InitIdle
  /\ advertised = TRUE
  /\ entry_address = "AA"
  /\ field_address = "AA"
  /\ position \in StartPositions
  /\ cal_opt \in InitCalibrations
  /\ cal_field = cal_opt
  /\ faults = MaxFaultsConc
  /\ flips = 0

NextPin ==
  \/ \E pin \in Pins : V_Start("AA", pin)
  \/ V_Connect
  \/ V_Main
  \/ \E stays \in BOOLEAN : V_Fallback(stays)
  \/ V_Again

SpecPin == InitPin /\ [][NextPin]_vars

\* the digits of a string, in order
DigitsOf(str) == SelectSeq(str, IsDigit)

\* a string of fewer than 4 digits with "0" put in front up to length 4
RECURSIVE LeftPadded(_)
LeftPadded(str) == IF Len(str) >= 4 THEN str ELSE LeftPadded(<<"0">> \o str)

\* the normalized PIN is 4 digit characters
FourDigits(str) == Len(str) = 4 /\ \A i \in 1..4 : IsDigit(str[i])

\* the frame is prefix, 4 bytes in 0..9, suffix
FourPinBytes(frame, prefix) ==
  /\ Len(frame) = Len(prefix) + 5
  /\ SubSeq(frame, 1, Len(prefix)) = prefix
  /\ \A i \in 1..4 : frame[Len(prefix) + i] \in 0..9
  /\ frame[Len(frame)] = 64

\* C27: the normalized PIN is exactly 4 digit characters for every input; an
\* input with fewer than 4 digits is padded with "0" on the left ("12" gives
\* "0012"); the keep-alive and set-PIN frames carry exactly 4 PIN bytes in 0..9.
C27_PinNormalized ==
  vp.pc # "idle" =>
    /\ FourDigits(vp.pin)
    /\ (vp.input # <<>> /\ Len(DigitsOf(vp.input)) < 4) =>
          vp.pin = LeftPadded(DigitsOf(vp.input))
    /\ FourPinBytes(KeepAliveBytes(vp.input), KEEP_ALIVE_PREFIX)
    /\ FourPinBytes(SetPinBytes(vp.input), SET_PIN_PREFIX)
    /\ vp.wrote => vp.frame = KeepAliveBytes(vp.input)

\* the same without the side of the padding
C27_FourDigitsAndBytes ==
  vp.pc # "idle" =>
    /\ FourDigits(vp.pin)
    /\ FourPinBytes(KeepAliveBytes(vp.input), KEEP_ALIVE_PREFIX)
    /\ FourPinBytes(SetPinBytes(vp.input), SET_PIN_PREFIX)
    /\ vp.wrote => FourPinBytes(vp.frame, KEEP_ALIVE_PREFIX)

\* ------------- system commands of every family and opcode
SystemFamilies == {"short", "72", "long"}

InitSystem ==
  /\ InitIdle
  /\ advertised \in BOOLEAN
  /\ entry_address = "AA"
  /\ field_address = "AA"
  /\ position \in StartPositions
  /\ cal_opt \in InitCalibrations
  /\ cal_field = cal_opt
  /\ faults = MaxFaultsConc
  /\ flips = 0

NextSystem ==
  \/ \E family \in SystemFamilies, opcode \in 0..MaxOpcode : Y_Start(family, opcode)
  \/ SC_Connect("system")
  \/ SC_Write("system")
  \/ SC_Cleanup("system")
  \/ Y_Done
  \/ Y_Again

SpecSystem == InitSystem /\ [][NextSystem]_vars

\* C28: for every opcode OP the short-family frame is the 7 bytes
\* 40 20 OP 00 00 CK 40 with (OP + CK) mod 256 = 0x60, and it is the frame
\* handed to _send_command; a family that is not known sends nothing (no
\* _send_command, no connection) and returns False.
C28_ShortFrameChecksum ==
  sy.pc # "idle" =>
    /\ sy.family = "short" =>
          LET op == sy.opcode % 256 IN
            /\ Len(sy.cmd) = 7
            /\ sy.cmd[6] \in 0..255
            /\ sy.cmd = <<64, 32, op, 0, 0, sy.cmd[6], 64>>
            /\ (op + sy.cmd[6]) % 256 = 96
            /\ sy.pc = "send" => sc["system"].pc # "off"
    /\ sy.family \notin {"short", "72"} =>
          /\ sy.pc = "done"
          /\ sy.result = FALSE
          /\ sy.cmd = <<>>
          /\ sc["system"] = SCOff
          /\ ~touched["system"]
          /\ ~cmdClient["system"]

\* the soft reset frame 40 20 AE 00 00 B2 40 was built and written
C28_Witness ==
  /\ sy.pc = "done"
  /\ sy.family = "short"
  /\ sy.opcode = 174
  /\ sy.cmd = <<64, 32, 174, 0, 0, 178, 64>>
  /\ sy.result
  /\ touched["system"]

\* a command of an unknown family has returned
C28_WitnessUnknown ==
  /\ sy.pc = "done"
  /\ sy.family = "long"
  /\ advertised

\* ------------- the both-sections cover moved to a position
\* positions and targets whose durations are whole milliseconds
BothPositions == {[head |-> 0, feet |-> 500], [head |-> 150, feet |-> 1000],
                  [head |-> 900, feet |-> 100], [head |-> 500, feet |-> 400]}
BothTargets == {0, 500, 1000}

InitBoth ==
  /\ InitIdle
  /\ advertised = TRUE
  /\ entry_address = "AA"
  /\ field_address = "AA"
  /\ position \in BothPositions
  /\ cal_opt = [head |-> 2000, feet |-> 1500]
  /\ cal_field = cal_opt
  /\ faults = MaxFaultsBoth
  /\ flips = 0

NextBoth ==
  \/ \E t \in BothTargets : BT_Start(t)
  \/ BT_AfterStop
  \/ BT_Attempt
  \/ BT_Phase1Return
  \/ BT_Phase2Return
  \/ BT_SeqHeadReturn
  \/ BT_SeqFeetReturn
  \/ B_Top("both")
  \/ B_Pre("both")
  \/ B_Stream("both")
  \/ B_Stop("both")
  \/ B_Except("both")
  \/ B_Retry("both")
  \/ B_Abort("both")
  \/ B_Finally("both")
  \/ SC_Connect("both")
  \/ SC_Write("both")
  \/ SC_Cleanup("both")
  \/ SS_Connect("both")
  \/ SS_Write("both")
  \/ SS_Disc("both")

SpecBoth == InitBoth /\ [][NextBoth]_vars

HeadCommands == {CMD_HEAD_UP, CMD_HEAD_DOWN}
FeetCommands == {CMD_FEET_UP, CMD_FEET_DOWN}

\* call i of the move is the combined command for min(head, feet duration)
CombinedPhase(ph) ==
  /\ ph.cmd = (IF ph.branch = "up" THEN CMD_BOTH_UP ELSE CMD_BOTH_DOWN)
  /\ ph.dur = Min(ph.head_duration, ph.feet_duration)

\* call i of the move is the slower section alone for the remaining difference
SlowerPhase(ph) ==
  /\ ph.dur = Max(ph.head_duration, ph.feet_duration)
               - Min(ph.head_duration, ph.feet_duration)
  /\ ph.cmd = (IF ph.head_duration > ph.feet_duration
                THEN (IF ph.branch = "up" THEN CMD_HEAD_UP ELSE CMD_HEAD_DOWN)
                ELSE (IF ph.branch = "up" THEN CMD_FEET_UP ELSE CMD_FEET_DOWN))

C29_WitnessOpposite ==
  /\ pc["both"] = "done"
  /\ bt.target = 500
  /\ Len(bt.phases) = 2
  /\ bt.phases[1].cmd = CMD_HEAD_DOWN
  /\ bt.phases[2].cmd = CMD_FEET_UP
  /\ bt.sets = {0}

\* a pass failed and the second one set the positions
C29_WitnessRetry ==
  /\ pc["both"] = "done"
  /\ bt.sets = {1}

\* the remainder was 0.1 s: no second phase
C29_WitnessNoRemainder ==
  /\ pc["both"] = "done"
  /\ Len(bt.phases) = 1
  /\ bt.phases[1].head_duration = 1000
  /\ bt.phases[1].feet_duration = 900
  /\ bt.sets = {0}

\* ------------- the hold switches held until a limit or the release
AllHoldCommands == {CMD_HEAD_UP, CMD_HEAD_DOWN, CMD_FEET_UP, CMD_FEET_DOWN,
                    CMD_BOTH_UP, CMD_BOTH_DOWN}
HoldPositions == {[head |-> 0, feet |-> 500], [head |-> 1000, feet |-> 700]}

InitHoldLimit ==
  /\ InitIdle
  /\ advertised = TRUE
  /\ entry_address = "AA"
  /\ field_address = "AA"
  /\ position \in HoldPositions
  /\ cal_opt = [head |-> 6000, feet |-> 1500]
  /\ cal_field = cal_opt
  /\ faults = MaxFaultsStreams
  /\ flips = 0

NextHoldLimit ==
  \/ \E cmd \in AllHoldCommands : Quiet /\ H_TurnOn(cmd)
  \/ NextHold

SpecHoldLimit == InitHoldLimit /\ [][NextHoldLimit]_vars

\* the sections a command drives
Drives(cmd, a) ==
  \/ a = "head" /\ cmd \in {CMD_HEAD_UP, CMD_HEAD_DOWN, CMD_BOTH_UP, CMD_BOTH_DOWN}
  \/ a = "feet" /\ cmd \in {CMD_FEET_UP, CMD_FEET_DOWN, CMD_BOTH_UP, CMD_BOTH_DOWN}

\* the pass of the loop the stream is about to make finds the estimate at the limit
EstimateAtLimit ==
  IF h.cmd \in UpCommands THEN HoldEst(h.cmd, h.start, h.since) >= POS_MAX_T
                          ELSE HoldEst(h.cmd, h.start, h.since) <= 0

\* the step wrote the directional command
DirectionalWrite ==
  /\ pc["hold"] = "loop"
  /\ h'.since = h.since + MOVEMENT_COMMAND_INTERVAL_MS

\* C30: the hold stream keeps sending the directional command, whatever the
\* time elapsed, until the cancel signal fires, and leaves its loop otherwise
\* only when the interpolated estimate has reached 100 (up) or 0 (down); then
\* the driven sections are set to exactly 100 or 0, no directional command is
\* sent any more, and the stream returns hit_limit = True.
C30_HoldUntilCancelOrLimit ==
  [][/\ (~h.ended /\ h'.ended) => (h.stop_event \/ h'.hit_limit)
     /\ (pc["hold"] = "loop" /\ pc'["hold"] = "loop" /\ ~h.stop_event /\ ~h'.stop_event) =>
          (~EstimateAtLimit /\ DirectionalWrite /\ h'.streamed)
     /\ (pc["hold"] = "loop" /\ EstimateAtLimit) => ~DirectionalWrite
     /\ (~h.hit_limit /\ h'.hit_limit) =>
          /\ pc["hold"] = "loop"
          /\ pc'["hold"] = "stop"
          /\ ~h.stop_event
          /\ EstimateAtLimit
          /\ faults' = faults
          /\ \A a \in Axes :
               position'[a] = IF ~Drives(h.cmd, a) THEN position[a]
                              ELSE IF h.cmd \in UpCommands THEN 1000 ELSE 0
     /\ (h.hit_limit /\ h'.hit_limit) =>
          /\ ~DirectionalWrite
          /\ h'.since = h.since
          /\ position' = position
     /\ (pc["hold"] = "finally" /\ pc'["hold"] = "done" /\ h.hit_limit /\ ~h'.cancelled) =>
          h'.reported = "limit"
     /\ h'.reported = "limit" => h'.hit_limit
    ]_vars

\* head up was held from 0: the command was streamed until the estimate
\* reached 100, the head is at 100 and the stream returned hit_limit = True
C30_Witness ==
  /\ pc["hold"] = "done"
  /\ h.cmd = CMD_HEAD_UP
  /\ h.start["head"] = 0
  /\ h.streamed
  /\ h.hit_limit
  /\ ~h.stop_event
  /\ h.reported = "limit"
  /\ position["head"] = 1000

\* the switch was released before any limit
C30_WitnessCancel ==
  /\ pc["hold"] = "done"
  /\ h.stop_event
  /\ h.streamed
  /\ ~h.hit_limit
  /\ h.reported = "no_limit"

\* ------------- the hold stream and the bounded stream, long enough for a
\* re-authentication to fall due
InitReauth == InitHoldLimit

NextReauth ==
  \/ NextHoldLimit
  \/ \E a \in Axes, t \in BothTargets : Quiet /\ M_StartService(a, t)
  \/ \E a \in Axes, t \in BothTargets : Quiet /\ M_StartCover(a, t)
  \/ NextMover

SpecReauth == InitReauth /\ [][NextReauth]_vars

\* C31: in every continuous stream the authentication frame is sent again each
\* time KEEP_ALIVE_ACTIVE_MOVEMENT_SEC have passed since the last one: no
\* stream goes on for longer than that interval plus one cadence period
\* without one.  The bounded stream writes the frame when it connects, before
\* the clock of b[p].since starts; the hold stream at h.last_keep_alive.
C31_ReauthEveryInterval ==
  /\ \A p \in BCallers :
       b[p].pc = "stream" =>
         b[p].since <= KEEP_ALIVE_ACTIVE_MOVEMENT_MS + MOVEMENT_COMMAND_INTERVAL_MS
  /\ pc["hold"] = "loop" =>
       h.since - h.last_keep_alive
         <= KEEP_ALIVE_ACTIVE_MOVEMENT_MS + MOVEMENT_COMMAND_INTERVAL_MS

\* the hold stream alone keeps the interval
C31_HoldReauth ==
  pc["hold"] = "loop" =>
    h.since - h.last_keep_alive
      <= KEEP_ALIVE_ACTIVE_MOVEMENT_MS + MOVEMENT_COMMAND_INTERVAL_MS

\* the hold stream has written the authentication frame again
C31_HoldReauthHappened ==
  /\ pc["hold"] = "loop"
  /\ h.last_keep_alive > DELAY_AFTER_CONNECT_MS + KEEP_ALIVE_DELAY_MS

\* ------------- diagnostic scans started and stopped in any order
\* the set ids asked for; 3 is not a set
ScanRequests == {2, 3}

InitScan ==
  /\ InitIdle
  /\ advertised = TRUE
  /\ entry_address = "AA"
  /\ field_address = "AA"
  /\ position \in StartPositions
  /\ cal_opt \in InitCalibrations
  /\ cal_field = cal_opt
  /\ faults = MaxFaultsConc
  /\ flips = 0

NextScan ==
  \/ \E set_id \in ScanRequests : TS_Start(set_id)
  \/ TS_Stop
  \/ \E k \in 1..MaxScans : TS_Begin(k)
  \/ \E k \in 1..MaxScans : TS_Sent(k)
  \/ \E k \in 1..MaxScans : TS_Next(k)
  \/ \E k \in 1..MaxScans : TS_Unwind(k)
  \/ \E k \in 1..MaxScans : SC_Connect(ScanProc(k))
  \/ \E k \in 1..MaxScans : SC_Write(ScanProc(k))
  \/ \E k \in 1..MaxScans : SC_Cleanup(ScanProc(k))

SpecScan == InitScan /\ [][NextScan]_vars

\* the scan task k is sending commands: created, not done, not cancelled
ScanSending(k) == ts.tasks[k].pc \in {"new", "send", "sleep"}

\* the pairs task k has sent are the first ones of its set, in list order
SentInOrder(k) ==
  LET t == ts.tasks[k]
      commands == TestScanSet(t.set_id)
  IN /\ Len(t.sent) <= Len(commands)
     /\ t.sent = SubSeq(commands, 1, Len(t.sent))
     /\ t.pc \in {"send", "sleep"} => Len(t.sent) = t.i + 1

\* C32: a scan sends the pairs of its set in list order, each at most once;
\* the last-sent index never exceeds the set size, does not go down while
\* the scan goes on, and index and descriptor name the pair most recently
\* sent; a send that returns False does not end the scan; and once
\* async_stop_test_scan has been called no scan created before the call
\* sends a further pair.
C32_ScanInOrderUntilStop ==
  [][/\ \A k \in 1..MaxScans :
          /\ SentInOrder(k)'
          /\ ts'.tasks[k].late = FALSE
          /\ (ts.tasks[k].pc = "send" /\ ts'.tasks[k].pc = "sleep") =>
                ts'.tasks[k].i = ts.tasks[k].i
          /\ (Len(ts'.tasks[k].sent) > Len(ts.tasks[k].sent)) =>
                /\ Len(ts'.tasks[k].sent) = Len(ts.tasks[k].sent) + 1
                /\ ts'.last_index = Len(ts'.tasks[k].sent)
                /\ ts'.last_desc = TestScanSet(ts.tasks[k].set_id)[ts'.last_index]
                /\ ts'.last_index <= Len(TestScanSet(ts.tasks[k].set_id))
                /\ Len(ts.tasks[k].sent) > 0 => ts'.last_index > Len(ts.tasks[k].sent)
    ]_vars

\* the same without the clause on async_stop_test_scan
C32_OrderAndIndex ==
  [][\A k \in 1..MaxScans :
          /\ SentInOrder(k)'
          /\ (Len(ts'.tasks[k].sent) > Len(ts.tasks[k].sent)) =>
                /\ Len(ts'.tasks[k].sent) = Len(ts.tasks[k].sent) + 1
                /\ ts'.last_index = Len(ts'.tasks[k].sent)
                /\ ts'.last_desc = TestScanSet(ts.tasks[k].set_id)[ts'.last_index]
                /\ ts'.last_index <= Len(TestScanSet(ts.tasks[k].set_id))
    ]_vars

\* a scan went through its whole set although a send of it had failed
C32_WitnessFailedSend ==
  \E k \in 1..MaxScans :
    /\ ts.tasks[k].pc = "done"
    /\ Len(ts.tasks[k].sent) = 5
    /\ ts.tasks[k].failed > 0

\* C39: after any calls of async_start_test_scan and async_stop_test_scan at
\* most one scan task is sending commands, and test_scan_running is True
\* exactly when there is one.
C39_OneScanTask ==
  /\ Cardinality({k \in 1..MaxScans : ScanSending(k)}) <= 1
  /\ test_scan_running <=> (\E k \in 1..MaxScans : ScanSending(k))

\* ------------- movement_active across a cover move
\* _run_to_position is between its set_movement_active(True) and its finally,
\* waiting at one of its awaits
SingleMoveWaiting ==
  /\ pc["mover"] \in {"cov_prestop", "cov_loop", "cov_run"}
  /\ b["mover"].pc # "ret"

\* phase 1 of _run_both_to_position has returned True and a section has more
\* than 0.1 s left: await asyncio.sleep(0.5) before the single-section phase
PhasePause ==
  /\ pc["both"] = "phase1"
  /\ b["both"].pc = "ret"
  /\ b["both"].result
  /\ Max(bt.head_duration, bt.feet_duration)
       - OverlapWindow(bt.head_duration, bt.feet_duration) > RESUME_MIN_REMAINING_MS

\* _run_both_to_position is between its set_movement_active(True) and its
\* finally, waiting at one of its awaits
BothMoveWaiting ==
  /\ pc["both"] \in {"prestop", "loop", "phase1", "phase2", "seq_head", "seq_feet"}
  /\ (b["both"].pc = "ret" => PhasePause)

\* C33 (as stated): from the start of a cover move (_run_to_position,
\* _run_both_to_position) until it returns, through the pre-stop send, the
\* pause between the combined and the single-section phase and the pause
\* before a retry, movement_active is True.
C33_ActiveWholeCoverMove ==
  /\ SingleMoveWaiting => movement_active
  /\ BothMoveWaiting => movement_active

\* the pause before the second pass of _run_to_position with the flag cleared
C33_RetryPauseInactive ==
  /\ pc["mover"] = "cov_loop"
  /\ m.attempt = 1
  /\ ~movement_active

\* ------------- Stop All pressed while a hold stream is sending
\* the hold stream has written its directional command at least once
HoldStreaming == pc["hold"] = "loop" /\ h.streamed

InitStopAll == InitConc

NextStopAll ==
  \/ H_TurnOn(CMD_HEAD_UP)
  \/ NextHold
  \/ HoldStreaming /\ SB_Press
  \/ SS_Connect("stopbtn")
  \/ SS_Write("stopbtn")
  \/ SS_Disc("stopbtn")
  \/ SB_Done

SpecStopAll == InitStopAll /\ [][NextStopAll]_vars

\* C34 (as stated): once a Stop All press (or a cover stop) has completed, a
\* stream that was started before the press sends no further directional
\* command.  Taken for the behaviours in which no BLE operation has failed, so
\* that the press has written its stop frame.
C34_StopAllStopsStreams ==
  [][(pc["stopbtn"] = "done" /\ faults' = MaxFaultsConc) => ~DirectionalWrite]_vars

\* the press has completed with its stop frame written and the hold stream,
\* not told to end, is still in its loop
C34_StreamOutlivesStop ==
  /\ pc["stopbtn"] = "done"
  /\ pc["hold"] = "loop"
  /\ ~h.stop_event
  /\ ~movement_active
  /\ faults = MaxFaultsConc

\* ------------- the Reset BLE Connection button ("reset")
\* OctoBedResetBleButton.async_press: coordinator.reset_ble_connection()
\* (self._device_address = None), then await the refresh, which is a poll cycle
RB_Press ==
  /\ pc["reset"] = "idle"
  /\ pc["poll"] = "idle"
  /\ field_address' = NoAddr
  /\ pc' = [pc EXCEPT !["reset"] = "refresh"]
  /\ UNCHANGED <<advertised, entry_address, flips, calVars, extVars, flagVars, authVars,
                 localVars, position, touched, client, cmdClient, faults, sc, ss, b>>

\* the refresh has returned; async_write_ha_state()
RB_Done ==
  /\ pc["reset"] = "refresh"
  /\ pc["poll"] = "returned"
  /\ pc' = [pc EXCEPT !["reset"] = "done"]
  /\ UNCHANGED <<envVars, calVars, extVars, flagVars, authVars, localVars, position,
                 touched, client, cmdClient, faults, sc, ss, b>>

\* an address the user configured, or none: the first poll cycle then
\* discovers the bed by name and persists its address in the entry
InitReset ==
  /\ InitIdle
  /\ advertised \in BOOLEAN
  /\ entry_address \in {"AA", NoAddr}
  /\ field_address = entry_address
  /\ position \in StartPositions
  /\ cal_opt \in InitCalibrations
  /\ cal_field = cal_opt
  /\ faults = MaxFaultsConc
  /\ flips = MaxEnvFlips

NextReset ==
  \/ RB_Press
  \/ RB_Done
  \/ NextPollCycle
  \/ EnvFlip

SpecReset == InitReset /\ [][NextReset]_vars

\* C35 (as stated): from the call of reset_ble_connection on, as long as no
\* discovery by name has set the address again, device_address is None,
\* whether the address had been configured by the user or discovered and
\* persisted.
C35_ResetClearsAddress ==
  (pc["reset"] # "idle" /\ field_address = NoAddr) => device_address = NoAddr

\* the press went through its refresh with the persisted address in use: the
\* poll cycle ran the PIN check on it and no discovery took place
C35_ResetKeptAddress ==
  /\ pc["reset"] = "done"
  /\ field_address = NoAddr
  /\ device_address = "AA"
  /\ touched["poll"]

\* ------------- _send_command with the auth frame and with another frame
\* the keep-alive loop sends the auth frame itself, a system command sends a
\* frame of its own; the bed with or without a PIN
InitSend ==
  /\ InitCommon
  /\ faults = MaxFaultsBoth
  /\ flips = MaxEnvFlips

NextSend ==
  \/ KA_Tick
  \/ KA_Done
  \/ SC_Connect("ka")
  \/ SC_Write("ka")
  \/ SC_Cleanup("ka")
  \/ Y_Start("short", 127)
  \/ Y_Done
  \/ Y_Again
  \/ SC_Connect("system")
  \/ SC_Write("system")
  \/ SC_Cleanup("system")
  \/ EnvFlip

SpecSend == InitSend /\ [][NextSend]_vars

\* the command is among the frames written
CommandWritten(r) == \E i \in 1..Len(r.writes) : r.writes[i] = r.data

\* every write of the command, unless the command is the auth frame, comes
\* right after a write of the auth frame
AuthBeforeCommand(r) ==
  \A i \in 1..Len(r.writes) :
    (r.writes[i] = r.data /\ r.data # r.auth) => (i > 1 /\ r.writes[i - 1] = r.auth)

\* C36: _send_command connects at most twice; after a first failure it has
\* waited the long backoff for "characteristic not found" and the short one
\* otherwise before its one retry; it writes the auth frame before the
\* command unless the command is the auth frame; it returns True exactly when
\* an attempt wrote the command and False after two failed attempts; when it
\* returns no client is left open, and disconnect() was called exactly on the
\* clients that were still connected.
C36_SendCommand ==
  \A p \in {"ka", "system"} :
    LET r == sc[p] IN
      /\ r.connects <= SEND_ATTEMPTS
      /\ r.attempt = 0 => r.backoff = 0
      /\ r.attempt = 1 =>
           /\ r.err1 \in {"charnf", "other"}
           /\ r.backoff = IF r.err1 = "charnf" THEN SEND_BACKOFF_LONG_MS
                                               ELSE SEND_BACKOFF_SHORT_MS
      /\ AuthBeforeCommand(r)
      /\ r.pc = "ret" =>
           /\ r.result <=> CommandWritten(r)
           /\ (~r.result /\ r.auth # "none") => r.connects = SEND_ATTEMPTS
           /\ ~cmdClient[p]
           /\ r.link = "none"
           /\ r.disconnects = r.opened - r.dropped

\* a system frame written on the retry after "characteristic not found"
C36_Witness ==
  /\ sc["system"].pc = "ret"
  /\ sc["system"].result
  /\ sc["system"].err1 = "charnf"
  /\ sc["system"].backoff = SEND_BACKOFF_LONG_MS
  /\ sc["system"].writes \in {<<sc["system"].auth, SystemData>>,
                              <<sc["system"].auth, sc["system"].auth, SystemData>>}

\* the auth frame sent as the command: written once, on its own
C36_WitnessAuthFrame ==
  /\ sc["ka"].pc = "ret"
  /\ sc["ka"].result
  /\ sc["ka"].writes = <<AuthCommand>>

\* two failed attempts, the second on a client whose link had gone down
C36_WitnessTwoFailures ==
  /\ sc["system"].pc = "ret"
  /\ ~sc["system"].result
  /\ sc["system"].connects = SEND_ATTEMPTS
  /\ sc["system"].dropped = 1
  /\ sc["system"].disconnects = sc["system"].opened - 1

\* ------------- the time a bounded movement has streamed when it succeeds
\* C37 (as stated): when async_run_movement_for_duration returns True, the
\* time its directional command was streamed, all attempts together, is at
\* least the requested duration minus 0.1 s; an attempt that fails before its
\* stream starts adds nothing.
C37_SuccessStreamedEnough ==
  \A p \in BCallers :
    (b[p].pc = "ret" /\ b[p].entered /\ b[p].result)
      => b[p].streamed >= b[p].dur - RESUME_MIN_REMAINING_MS

\* success reported with less than half of the requested time streamed
C37_HalfStreamed ==
  /\ b["mover"].pc = "ret"
  /\ b["mover"].entered
  /\ b["mover"].result
  /\ 2 * b["mover"].streamed < b["mover"].dur

\* ------------- calibration stop with no calibration in progress
\* async_stop_calibration is running and found _calibration_mode = 0, and
\* no calibration is being started or is streaming
IdleStopRunning ==
  /\ pc["calstop"] # "idle"
  /\ c.was = "none"
  /\ pc["calstart"] = "idle"
  /\ pc["calstart2"] = "idle"
  /\ pc["cal"] \in {"idle", "done"}

\* C38 (as stated): a calibration stop called while the mode is idle (no
\* calibration started, or the calibration stream ended on its own) stores no
\* calibration constant, starts no directional movement, and leaves the head
\* and feet positions as they are.
C38_IdleStopChangesNothing ==
  [][IdleStopRunning =>
       /\ cal_field' = cal_field
       /\ cal_opt' = cal_opt
       /\ b'["calstop"].streamed = 0
       /\ position' = position]_vars

\* the stop that found the mode idle is streaming the feet down, the head
\* already set to 0, the calibration constants as they were
C38_IdleStopMovesToZero ==
  /\ IdleStopRunning
  /\ b["calstop"].cmd = CMD_FEET_DOWN
  /\ b["calstop"].streamed > 0
  /\ position["head"] = 0
  /\ cal_field = cal_opt
  /\ cal_opt \in InitCalibrations

\* ------------- the no-PIN path of the PIN check against the classification
\* C40 (as stated): the PIN check takes its no-PIN path only on a notification
\* that the classification of notification frames gives as NoPinSet (valid
\* header, status byte 0x1F), never on an Accepted, Rejected or unrelated
\* notification that has a byte 0x1F somewhere else.
C40_NoPinPathMatchesClassification ==
  [][ObservesNoPin =>
       ReferencePinResponse(pl.received[FirstDeciding(pl.received)]) = "NoPinSet"]_vars

\* the check has taken the no-PIN path on a notification whose status byte
\* says Accepted
C40_AcceptedTakenAsNoPin ==
  /\ pc["poll"] = "pin_done"
  /\ pl.wrote
  /\ device_has_no_pin
  /\ Len(pl.received) = 1
  /\ ReferencePinResponse(pl.received[1]) = "Accepted"
  /\ ParsePinResponse(pl.received[1]) = "true"

\* the check has taken the no-PIN path on a notification without the header
\* of a PIN answer
C40_UnrelatedTakenAsNoPin ==
  /\ pc["poll"] = "pin_done"
  /\ pl.wrote
  /\ device_has_no_pin
  /\ Len(pl.received) = 1
  /\ ParsePinResponse(pl.received[1]) = "none"
  /\ pl.received[1][2] # 33


====
